---- MODULE Spec2Model ----
(***************************************************************************)
(* Fast Context: the search orchestrator (search), its network layer       *)
(* (_unaryRequest, _streamingRequest, _applyTlsFallback) and the local     *)
(* tool dispatch (ToolExecutor.execToolCall / execCommand).                *)
(*                                                                         *)
(* Spec     one search session, from the call of search to its return or   *)
(*          its exception, every await being a separate step.              *)
(* NetSpec  several network calls of one process running interleaved and    *)
(*          sharing the TLS fallback state.                                *)
(* ToolSpec the executor alone: one call of execToolCall, execCommand or   *)
(*          _truncate on an input drawn from bounded sets.                 *)
(* CodecSpec the wire codec alone: _varint and decodeVarint, extractStrings, *)
(*          connectFrameEncode and connectFrameDecode, and the write calls *)
(*          of a ProtobufEncoder, each on an input drawn from bounded sets.*)
(* RepairSpec repairJson on one text, every step of its ladder being a     *)
(*          separate step.                                                 *)
(* ParseSpec the tool-call extractor alone: extractJsonLikeArgs,           *)
(*          parseToolCallRobust, _parseAnswer and _parseResponse, each on  *)
(*          an input drawn from bounded sets.                              *)
(* LiveSpec Spec with the steps of the session taken in the end.           *)
(* PairSpec two search sessions of one process interleaved at their awaits.*)
(***************************************************************************)
EXTENDS Integers, Sequences, FiniteSets, TLC

\* ------------------------------------------------------------------ bounds
\* largest value of the maxTurns option that is explored
MaxTurnsBound == 2
\* number of callers whose network calls interleave in NetSpec
MaxCallers == 2

Callers == 1..MaxCallers
\* the entries of an argument tree handed to execToolCall on its own
MaxEntries == 2
\* the segments of a path argument after its prefix
MaxPathLen == 3
\* the characters of the project root the executor was built with
RootChars == 10
\* the caller that runs the search session of Spec
Sessions == {1}

\* the longest byte sequence handed to a codec function as it is
MaxBytes == 3

\* the most frames in one body, and the most bytes a body loses at its end
MaxFrames == 2
MaxCut == 7

\* the most write calls on one ProtobufEncoder
MaxCalls == 2

\* the most members of an object and elements of an array in a JSON text
MaxMembers == 2

\* ------------------------------------------------------- program constants
FINAL_FORCE_ANSWER == "You have no turns left. Now you MUST provide your final ANSWER, even if it's not complete."
RATE_LIMITED == "Rate limited, please try again later"
MAX_TURNS_REACHED == "Max turns reached without getting an answer"
REQUEST_FAILED == "Request failed: "
\* the status checkRateLimit treats as "rate limited"
RateLimitStatus == 429

\* protobuf role numbers of _buildChatMessage
ROLE_USER == 1
ROLE_ASSISTANT == 2
ROLE_TOOL == 4
ROLE_SYSTEM == 5

\* a JavaScript undefined (a missing member)
U == "undefined"

\* ------------------------------------------------------------ JSON values
\* A value of the arguments tree: its JSON type and, for an object, the
\* members ToolExecutor.execCommand reads; xml is the number of well-formed
\* <file> elements of a string used as the answer payload.
JVal(jt, type, pattern, path, file, xml) ==
  [jt |-> jt, type |-> type, pattern |-> pattern, path |-> path, file |-> file, xml |-> xml]

JNull == JVal("null", U, U, U, U, 0)
JNumber == JVal("number", U, U, U, U, 0)
JString(n) == JVal("string", U, U, U, U, n)
JArray == JVal("array", U, U, U, U, 0)
JCmd(type, pattern, path, file) == JVal("object", type, pattern, path, file, 0)

\* typeof v === "object" (true of null and of arrays)
TypeofObject(v) == v.jt \in {"null", "object", "array"}

Entry(k, v) == [key |-> k, val |-> v]

\* every key the explored argument trees use, in the order of
\* Array.prototype.sort (UTF-16 code units: "command10" < "command2")
SortedKeyUniverse == <<"0", "answer", "command1", "command10", "command2", "other">>

\* k.startsWith("command")
StartsWithCommand(k) == k \in {"command1", "command10", "command2"}

Range(s) == {s[i] : i \in 1..Len(s)}

\* Object.keys(args): the keys in insertion order
ObjectKeys(args) == [i \in 1..Len(args) |-> args[i].key]

\* args[key]; a missing member is the value whose type is undefined
Member(args, k) ==
  LET idx == {i \in 1..Len(args) : args[i].key = k}
  IN IF idx = {} THEN JVal(U, U, U, U, U, 0) ELSE args[CHOOSE i \in idx : TRUE].val

VPath == "/codebase/src"

\* the argument trees the remote model emits in the explored runs
ExecTrees ==
  { <<>>,
    <<Entry("command1", JCmd("rg", "a", VPath, U)), Entry("command2", JCmd("rg", "a", VPath, U))>>,
    <<Entry("command2", JCmd("rg", "b", VPath, U)), Entry("command1", JCmd("readfile", U, U, VPath))>>,
    <<Entry("command10", JCmd("ls", U, VPath, U)), Entry("command2", JCmd("tree", U, VPath, U)),
      Entry("other", JNumber)>>,
    <<Entry("command1", JCmd("glob", "a", VPath, U)), Entry("command2", JCmd("rg", U, VPath, U))>>,
    <<Entry("command1", JString(0)), Entry("command2", JArray), Entry("command10", JCmd(U, U, U, U))>>,
    <<Entry("0", JString(0))>>,
    <<Entry("command1", JNull)>>,
    <<Entry("command2", JCmd("rg", "b", U, U)), Entry("command1", JCmd("rg", "a", VPath, U))>>,
    <<Entry("command1", JCmd("readfile", U, U, U))>>,
    <<Entry("command1", JCmd("glob", U, VPath, U))>> }

\* argument trees of an answer call: a payload with one <file> element, one
\* with none, a payload that is no string, and no payload at all
AnswerTrees ==
  { <<Entry("answer", JString(1))>>,
    <<Entry("answer", JString(0))>>,
    <<Entry("answer", JNumber)>>,
    <<>> }

\* what _parseResponse returns: [text, null] or [thinking, [name, args]]
NoToolResponse(text) == [tool |-> "none", text |-> text, args |-> <<>>]
ToolResponse(name, args) == [tool |-> name, text |-> "thinking", args |-> args]

\* the responses of the remote model in the explored runs
Responses ==
  {NoToolResponse("[Error] unknown: boom"), NoToolResponse("plain text")}
    \cup {ToolResponse("restricted_exec", a) : a \in ExecTrees}
    \cup {ToolResponse("answer", a) : a \in AnswerTrees \cup {<<Entry("command1", JCmd("rg", "a", VPath, U))>>}}
    \cup {ToolResponse("other_tool", a) : a \in {<<>>, <<Entry("command1", JCmd("rg", "b", VPath, U))>>}}

\* thinking.startsWith("[Error]"), over the two texts of Responses
StartsWithErrorMarker(text) == text = "[Error] unknown: boom"

\* ------------------------------------------------------------ ToolExecutor
\* what one sub-command does: the text it returns (named by the code path and
\* the arguments it was computed from) or the exception it raises, and the
\* patterns it records
Returned(out, pushed) == [raised |-> FALSE, output |-> out, pushed |-> pushed]
Raised(pushed) == [raised |-> TRUE, output |-> <<"TypeError">>, pushed |-> pushed]

\* ToolExecutor._real: virtual.startsWith raises on a missing path
RealRaises(virtual) == virtual = U

\* ToolExecutor.rg: records the pattern first, then maps the path
Rg(pattern, path) ==
  IF RealRaises(path) THEN Raised(<<pattern>>)
  ELSE IF pattern = U THEN Returned(<<"Error: execFileSync", pattern, path>>, <<pattern>>)
  ELSE Returned(<<"rg output", pattern, path>>, <<pattern>>)

\* ToolExecutor.readfile
Readfile(file) ==
  IF RealRaises(file) THEN Raised(<<>>) ELSE Returned(<<"readfile output", file>>, <<>>)

\* ToolExecutor.tree
Tree(path) ==
  IF RealRaises(path) THEN Raised(<<>>) ELSE Returned(<<"tree output", path>>, <<>>)

\* ToolExecutor.ls
Ls(path) ==
  IF RealRaises(path) THEN Raised(<<>>) ELSE Returned(<<"ls output", path>>, <<>>)

\* ToolExecutor.glob: join(rp, pattern) raises on a missing pattern
Glob(pattern, path) ==
  IF RealRaises(path) \/ pattern = U THEN Raised(<<>>)
  ELSE Returned(<<"glob output", pattern, path>>, <<>>)

\* ToolExecutor.execCommand: cmd.type of null raises
ExecCommand(cmd) ==
  IF cmd.jt = "null" THEN Raised(<<>>)
  ELSE LET t == IF cmd.type = U THEN "" ELSE cmd.type
       IN CASE t = "rg" -> Rg(cmd.pattern, cmd.path)
            [] t = "readfile" -> Readfile(cmd.file)
            [] t = "tree" -> Tree(cmd.path)
            [] t = "ls" -> Ls(cmd.path)
            [] t = "glob" -> Glob(cmd.pattern, cmd.path)
            [] OTHER -> Returned(<<"Error: unknown command type", t>>, <<>>)

\* an execToolCall that walks the command keys in insertion order
CommandKeysInsertionOrder(args) == SelectSeq(ObjectKeys(args), StartsWithCommand)

\* Object.keys(args).filter(k => k.startsWith("command")).sort()
CommandKeys(args) ==
  SelectSeq(SortedKeyUniverse,
            LAMBDA k : k \in Range(ObjectKeys(args)) /\ StartsWithCommand(k))

\* the loop of execToolCall over keys[i..]: parts holds the result blocks so
\* far, pushed the patterns recorded so far, execs the commands executed
RECURSIVE ExecKeys(_, _, _, _, _, _)
ExecKeys(args, keys, i, parts, pushed, execs) ==
  IF i > Len(keys)
  THEN [raised |-> FALSE, parts |-> parts, pushed |-> pushed, execs |-> execs]
  ELSE LET v == Member(args, keys[i])
       IN IF ~TypeofObject(v)
          THEN ExecKeys(args, keys, i + 1, parts, pushed, execs)
          ELSE LET r == ExecCommand(v)
               IN IF r.raised
                  THEN [raised |-> TRUE, parts |-> parts,
                        pushed |-> pushed \o r.pushed, execs |-> execs + 1]
                  ELSE ExecKeys(args, keys, i + 1,
                                Append(parts, [key |-> keys[i], output |-> r.output]),
                                pushed \o r.pushed, execs + 1)

\* ToolExecutor.execToolCall
ExecToolCall(args) == ExecKeys(args, CommandKeys(args), 1, <<>>, <<>>, 0)

\* [...new Set(xs)]: first occurrences, in order
RECURSIVE Dedup(_)
Dedup(xs) ==
  IF xs = <<>> THEN <<>>
  ELSE LET front == Dedup(SubSeq(xs, 1, Len(xs) - 1))
           last == xs[Len(xs)]
       IN IF last \in Range(front) THEN front ELSE Append(front, last)

\* _parseAnswer: one entry per well-formed <file> element
ParseAnswer(xml) == [i \in 1..xml |-> "file"]

\* toolArgs.answer || "" as the number of <file> elements _parseAnswer finds
AnswerXml(args) ==
  LET a == Member(args, "answer") IN IF a.jt = "string" THEN a.xml ELSE 0

\* ------------------------------------------------- ToolExecutor: paths
\* this.root, as the segments of the resolved absolute path
Root == <<"home", "proj">>

\* a path argument: whether the string starts with "/codebase", and the
\* segments of the rest (of the whole absolute path when it does not)
VirtualPath(codebase, segs) == [codebase |-> codebase, segs |-> segs]

\* path.join's normalisation of an absolute path: ".." removes the segment
\* before it, and stays at "/" when there is none
RECURSIVE Normalize(_)
Normalize(segs) ==
  IF segs = <<>> THEN <<>>
  ELSE LET front == Normalize(SubSeq(segs, 1, Len(segs) - 1))
           last == segs[Len(segs)]
       IN IF last # ".." THEN Append(front, last)
          ELSE IF front = <<>> THEN <<>>
          ELSE SubSeq(front, 1, Len(front) - 1)

\* ToolExecutor._real: join(root, rest) for a "/codebase" path, the argument
\* itself for any other
Real(virtual) ==
  IF virtual.codebase THEN Normalize(Root \o virtual.segs) ELSE virtual.segs

\* ------------------------------------------------- ToolExecutor: texts
RESULT_MAX_LINES == 50
LINE_MAX_CHARS == 250
\* lines.slice(0, 300) of _treePy and matches.sort().slice(0, 100) of glob
TreePyMaxLines == 300
GlobMaxMatches == 100
\* "/codebase".length
CodebaseChars == 9

Min(a, b) == IF a < b THEN a ELSE b

\* a line of text: its length, and how many times it holds the root path.
\* A text is the sequence of the lines text.split("\n") gives, never empty.
Line(len, roots) == [len |-> len, roots |-> roots]

EmptyText == <<Line(0, 0)>>

\* lines.join("\n") read back as a text
Join(lines) == IF lines = <<>> THEN EmptyText ELSE lines

\* what a command returned: its lines, and whether the truncation marker
\* line follows them
Output(lines, marker) == [lines |-> lines, marker |-> marker]

\* a _truncate that also marks a text of which it cut a line
TruncateMarksCutLines(text) ==
  LET limit == Min(Len(text), RESULT_MAX_LINES)
  IN Output([i \in 1..limit |->
               IF text[i].len > LINE_MAX_CHARS
               THEN Line(LINE_MAX_CHARS, text[i].roots) ELSE text[i]],
            \/ Len(text) > RESULT_MAX_LINES
            \/ \E i \in 1..limit : text[i].len > LINE_MAX_CHARS)

\* ToolExecutor._truncate
Truncate(text) ==
  LET limit == Min(Len(text), RESULT_MAX_LINES)
  IN Output([i \in 1..limit |->
               IF text[i].len > LINE_MAX_CHARS
               THEN Line(LINE_MAX_CHARS, text[i].roots) ELSE text[i]],
            Len(text) > RESULT_MAX_LINES)

\* ToolExecutor._remap: every occurrence of the root becomes "/codebase"
Remap(text) ==
  [i \in 1..Len(text) |->
     Line(text[i].len - text[i].roots * RootChars + text[i].roots * CodebaseChars, 0)]

\* `${prefix}${text}`: a prefix of the given length before the first line
Prefixed(prefix, text) ==
  [i \in 1..Len(text) |-> IF i = 1 THEN Line(text[1].len + prefix, text[1].roots) ELSE text[i]]

\* "(no matches)"
NoMatches == <<Line(12, 0)>>

\* the text rg returns: text is the path argument (missing), stdout (ok),
\* stderr, or the message of the error
RgText(outcome, text) ==
  CASE outcome = "missing" -> Output(Prefixed(28, text), FALSE)
    [] outcome = "ok" -> Truncate(Remap(IF text = EmptyText THEN NoMatches ELSE text))
    [] outcome = "status1" -> Output(NoMatches, FALSE)
    [] outcome = "stderr" -> Truncate(Remap(text))
    [] OTHER -> Output(Prefixed(7, text), FALSE)

Digits(n) == IF n < 10 THEN 1 ELSE IF n < 100 THEN 2 ELSE IF n < 1000 THEN 3 ELSE 4

\* the text readfile returns: text is the file argument (missing), the
\* message of the error (unreadable) or the content of the file; start and
\* end are start_line and end_line, 0 when not given
ReadfileText(outcome, text, start, end) ==
  CASE outcome = "missing" -> Output(Prefixed(23, text), FALSE)
    [] outcome = "unreadable" -> Output(Prefixed(7, text), FALSE)
    [] OTHER ->
         LET s == (IF start = 0 THEN 1 ELSE start) - 1
             e == Min(IF end = 0 THEN Len(text) ELSE end, Len(text))
             selected == SubSeq(text, s + 1, e)
         IN Truncate(Join([i \in 1..Len(selected) |->
                             Line(selected[i].len + Digits(s + i) + 1, selected[i].roots)]))

\* the text tree returns: text is the path argument (missing), the stdout of
\* the system command (ok) or the entry lines _treePy walked (fallback)
TreeText(outcome, text) ==
  CASE outcome = "missing" -> Output(Prefixed(22, text), FALSE)
    [] outcome = "ok" -> Truncate(Remap(text))
    [] OTHER ->
         LET lines == <<Line(CodebaseChars, 0)>> \o text
         IN Output(SubSeq(lines, 1, Min(Len(lines), TreePyMaxLines)), FALSE)

\* the text ls returns: text is stdout (ok) or the message of the error
LsText(outcome, text) ==
  CASE outcome = "ok" -> Truncate(Remap(text))
    [] OTHER -> Output(Prefixed(7, text), FALSE)

\* the text glob returns: text is the sorted matches, one per line
GlobText(outcome, text) ==
  CASE outcome = "none" -> Output(NoMatches, FALSE)
    [] OTHER -> Output(Remap(SubSeq(text, 1, Min(Len(text), GlobMaxMatches))), FALSE)

\* the text execCommand returns for a command of the given type on the given
\* code path; for an unknown type text is the type itself
ExecCommandText(type, outcome, text, start, end) ==
  CASE type = "rg" -> RgText(outcome, text)
    [] type = "readfile" -> ReadfileText(outcome, text, start, end)
    [] type = "tree" -> TreeText(outcome, text)
    [] type = "ls" -> LsText(outcome, text)
    [] type = "glob" -> GlobText(outcome, text)
    [] OTHER -> Output(Prefixed(30, text), FALSE)

\* the code paths of each command
Outcomes(type) ==
  CASE type = "rg" -> {"missing", "ok", "status1", "stderr", "message"}
    [] type = "readfile" -> {"missing", "unreadable", "ok"}
    [] type = "tree" -> {"missing", "ok", "fallback"}
    [] type = "ls" -> {"ok", "error"}
    [] type = "glob" -> {"none", "ok"}
    [] OTHER -> {"unknown"}

FsCommandTypes == {"rg", "readfile", "tree", "ls", "glob"}

\* ------------------------------------------------- inputs of the executor
SeqsUpTo(S, n) == UNION {[1..k -> S] : k \in 0..n}

\* the argument trees handed to execToolCall on its own: every order of up to
\* MaxEntries entries with distinct keys
ToolCallTrees ==
  LET keys == {"command1", "command10", "command2", "other"}
      vals == {JCmd("rg", "a", VPath, U), JCmd("rg", "b", VPath, U),
               JCmd("readfile", U, U, VPath), JCmd("ls", U, U, U), JString(1)}
      entries == {Entry(k, v) : k \in keys, v \in vals}
  IN {t \in SeqsUpTo(entries, MaxEntries) :
        \A i, j \in 1..Len(t) : t[i].key = t[j].key => i = j}

\* opts.maxCommands: the default and a smaller setting
DefaultMaxCommands == 8
MaxCommandsValues == {1, DefaultMaxCommands}

\* the path arguments: "/codebase" paths and other absolute paths
Paths ==
  {VirtualPath(c, g) : c \in BOOLEAN, g \in SeqsUpTo({"src", "etc", ".."}, MaxPathLen)}

\* texts of n lines of three characters, line k replaced by the given line
Text(n, k, line) == [i \in 1..n |-> IF i = k THEN line ELSE Line(3, 0)]

Texts ==
  LET counts == {1, 2, RESULT_MAX_LINES, RESULT_MAX_LINES + 1,
                 GlobMaxMatches + 1, TreePyMaxLines + 1}
      lines == {Line(0, 0), Line(LINE_MAX_CHARS, 0), Line(LINE_MAX_CHARS + 1, 0),
                Line(LINE_MAX_CHARS + RootChars, 1)}
  IN {Text(n, k, l) : n \in counts, k \in {1, 2}, l \in lines}

\* one call of execCommand: the command, and what the filesystem or the
\* child process answers on the code path taken
CommandInput(type, path, outcome, text, start, end) ==
  [type |-> type, path |-> path, outcome |-> outcome, text |-> text,
   start |-> start, end |-> end]

CommandInputs ==
  {CommandInput(t, p, "ok", Text(1, 0, Line(0, 0)), 0, 0) : t \in FsCommandTypes, p \in Paths}
    \cup UNION {{CommandInput(t, VirtualPath(TRUE, <<"src">>), o, x, 0, 0) :
                   o \in Outcomes(t), x \in Texts} : t \in FsCommandTypes \cup {"other"}}
    \cup {CommandInput("readfile", VirtualPath(TRUE, <<"src">>), "ok", x, b, e) :
            x \in Texts, b \in {0, 2}, e \in {0, 1}}

\* a call of a function of the executor: its input, and its result once made
PendingApp(fn, in) == [fn |-> fn, in |-> in, done |-> FALSE, out |-> <<>>]

NoApp == PendingApp("none", <<>>)

ToolApps ==
  {PendingApp("execToolCall", [maxCommands |-> m, args |-> a]) :
     m \in MaxCommandsValues, a \in ToolCallTrees}
    \cup {PendingApp("execCommand", c) : c \in CommandInputs}
    \cup {PendingApp("_truncate", x) : x \in Texts}

\* ------------------------------------------------------------ wire codec
\* A JavaScript number that is a non-negative integer is the set of the
\* positions of its one bits; the 32-bit operators (&, |, <<, >>>) read and
\* write positions 0..31 only.
NatBits(n) == {p \in 0..30 : (n \div 2^p) % 2 = 1}

\* value & 0x7f as a small integer
Low7(bits) ==
  LET b(p) == IF p \in bits THEN 2^p ELSE 0
  IN b(0) + b(1) + b(2) + b(3) + b(4) + b(5) + b(6)

\* an int32 bit pattern as an integer
ToInteger(pattern) ==
  LET RECURSIVE sum(_)
      sum(p) == IF p < 0 THEN 0 ELSE (IF p \in pattern THEN 2^p ELSE 0) + sum(p - 1)
  IN (IF 31 \in pattern THEN (0 - 2^30) * 2 ELSE 0) + sum(30)

\* a varint encoder that writes the low group only
VarintSingleByte(bits) == <<Low7(bits)>>

\* ProtobufEncoder._varint: value > 0x7f is decided on the number itself,
\* value >>>= 7 keeps bits 7..31 of it
RECURSIVE Varint(_)
Varint(bits) ==
  IF \E p \in bits : p >= 7
  THEN <<Low7(bits) + 128>> \o Varint({p - 7 : p \in {q \in bits : q >= 7 /\ q <= 31}})
  ELSE <<Low7(bits)>>

\* the loop of decodeVarint (extractStrings repeats it inline):
\* value |= (b & 0x7f) << shift, the shift count taken modulo 32; buf[offset]
\* is undefined before the buffer, which & reads as 0
RECURSIVE DecodeLoop(_, _, _, _)
DecodeLoop(buf, offset, value, shift) ==
  IF offset >= Len(buf) THEN [value |-> value, offset |-> offset]
  ELSE LET b == IF offset >= 0 THEN buf[offset + 1] ELSE 0
           shifted == {p + (shift % 32) : p \in NatBits(b % 128)} \cap (0..31)
       IN IF b >= 128
          THEN DecodeLoop(buf, offset + 1, value \cup shifted, shift + 7)
          ELSE [value |-> value \cup shifted, offset |-> offset + 1]

\* decodeVarint: [value, newOffset]
DecodeVarint(buf, offset) == DecodeLoop(buf, offset, {}, 0)

\* Buffer.subarray(start, end): negative indexes count from the end, both are
\* clamped to the buffer, and an end before the start gives the empty buffer
Subarray(buf, start, end) ==
  LET clamp(x) == IF x < 0 THEN (IF Len(buf) + x < 0 THEN 0 ELSE Len(buf) + x)
                  ELSE IF x > Len(buf) THEN Len(buf) ELSE x
  IN SubSeq(buf, clamp(start) + 1, clamp(end))

\* the code point a decoder puts where the bytes are not UTF-8
ReplacementChar == 65533

\* raw.toString("utf-8") as code points, for one- and two-byte sequences;
\* every other byte becomes the replacement character (the lead bytes of
\* three- and four-byte sequences, 224..244, are not among the inputs)
RECURSIVE Utf8Text(_)
Utf8Text(raw) ==
  IF raw = <<>> THEN <<>>
  ELSE IF raw[1] < 128 THEN <<raw[1]>> \o Utf8Text(Tail(raw))
  ELSE IF /\ raw[1] \in 194..223
          /\ Len(raw) >= 2
          /\ raw[2] \in 128..191
       THEN <<(raw[1] - 192) * 64 + (raw[2] - 128)>> \o Utf8Text(Tail(Tail(raw)))
  ELSE <<ReplacementChar>> \o Utf8Text(Tail(raw))

\* one iteration of the outer loop of extractStrings on the scan state st.
\* Below position -2 every iteration reads two absent bytes (tag 0, an empty
\* varint) and moves on by two: the run of them is taken at once.
ExtractStep(data, st) ==
  IF st.i < 0 - 2 THEN [st EXCEPT !.i = (st.i % 2) - 2]
  ELSE
  LET tag == DecodeVarint(data, st.i)
      wire == Low7(tag.value) % 8
      len == DecodeVarint(data, tag.offset)
      length == ToInteger(len.value)
      raw == Subarray(data, len.offset, len.offset + length)
      text == Utf8Text(raw)
  IN CASE wire = 0 -> [st EXCEPT !.i = len.offset]
       [] wire = 1 -> [st EXCEPT !.i = tag.offset + 8]
       [] wire = 2 ->
            [st EXCEPT !.i = len.offset + length,
                       !.strings = IF /\ len.offset + length <= Len(data)
                                      /\ Len(text) > 5
                                      /\ \A k \in 1..Len(text) : text[k] # ReplacementChar
                                   THEN Append(@, text) ELSE @]
       [] wire = 5 -> [st EXCEPT !.i = tag.offset + 4]
       [] OTHER -> [st EXCEPT !.i = tag.offset, !.stopped = TRUE]

\* gzipSync: a container with a magic byte in front and a check byte behind;
\* gunzipSync raises on everything else
Gzip(bytes) == <<31>> \o bytes \o <<200 + Len(bytes)>>

\* gunzipSync: the content of a whole container
\* a gunzipSync that raises on every input
GunzipRaises(bytes) == [raised |-> TRUE, bytes |-> <<>>]

Gunzip(bytes) ==
  IF Len(bytes) >= 2 /\ bytes[1] = 31 /\ bytes[Len(bytes)] = 200 + Len(bytes) - 2
  THEN [raised |-> FALSE, bytes |-> SubSeq(bytes, 2, Len(bytes) - 1)]
  ELSE [raised |-> TRUE, bytes |-> <<>>]

\* connectFrameEncode: flags, the length as four bytes big-endian, the payload
ConnectFrameEncode(protoBytes, compress) ==
  LET payload == IF compress THEN Gzip(protoBytes) ELSE protoBytes
      n == Len(payload)
  IN <<IF compress THEN 1 ELSE 0,
       (n \div 16777216) % 256, (n \div 65536) % 256, (n \div 256) % 256, n % 256>>
       \o payload

\* a loop guard that wants one more byte only
HasHeaderLoose(data, i) == i < Len(data)

\* while (i + 5 <= data.length)
HasHeader(data, i) == i + 5 <= Len(data)

\* a decoder that decompresses whenever bit 0 of the flag byte is set
RECURSIVE DecodeFramesOnBit0(_, _, _)
DecodeFramesOnBit0(data, i, frames) ==
  IF ~HasHeader(data, i) THEN [raised |-> FALSE, frames |-> frames]
  ELSE LET length == ((data[i + 2] * 256 + data[i + 3]) * 256 + data[i + 4]) * 256 + data[i + 5]
           payload == Subarray(data, i + 5, i + 5 + length)
           unzipped == Gunzip(payload)
       IN DecodeFramesOnBit0(data, i + 5 + length,
                             Append(frames, IF data[i + 1] % 2 = 1 /\ ~unzipped.raised
                                            THEN unzipped.bytes ELSE payload))

\* the loop of connectFrameDecode from position i; readUInt32BE raises a
\* RangeError when fewer than four bytes follow i + 1
RECURSIVE DecodeFrames(_, _, _)
DecodeFrames(data, i, frames) ==
  IF ~HasHeader(data, i) THEN [raised |-> FALSE, frames |-> frames]
  ELSE IF i + 5 > Len(data) THEN [raised |-> TRUE, frames |-> frames]
  ELSE LET flags == data[i + 1]
           length == ((data[i + 2] * 256 + data[i + 3]) * 256 + data[i + 4]) * 256 + data[i + 5]
           payload == Subarray(data, i + 5, i + 5 + length)
           unzipped == Gunzip(payload)
       IN DecodeFrames(data, i + 5 + length,
                       Append(frames, IF flags \in {1, 3} /\ ~unzipped.raised
                                      THEN unzipped.bytes ELSE payload))

\* connectFrameDecode
ConnectFrameDecode(data) == DecodeFrames(data, 0, <<>>)

\* the bytes one write call of a ProtobufEncoder pushes; the sub-encoder of
\* a writeMessage call is the sequence of the calls made on it, and a string
\* is its code points (below 2048), which Buffer.from(value, "utf-8") turns
\* into one byte or two each
RECURSIVE WriteCall(_)
WriteCall(c) ==
  LET tag(wire) == Varint(NatBits(c.field * 8 + wire))
      RECURSIVE Utf8(_)
      Utf8(cs) == IF cs = <<>> THEN <<>>
                  ELSE (IF cs[1] < 128 THEN <<cs[1]>>
                        ELSE <<192 + (cs[1] \div 64), 128 + (cs[1] % 64)>>) \o Utf8(Tail(cs))
      delimited(data) == tag(2) \o Varint(NatBits(Len(data))) \o data
      RECURSIVE all(_)
      all(cs) == IF cs = <<>> THEN <<>> ELSE WriteCall(cs[1]) \o all(Tail(cs))
  IN CASE c.op = "writeVarint" -> tag(0) \o Varint(c.number)
       [] c.op = "writeString" -> delimited(Utf8(c.string))
       [] c.op = "writeBytes" -> delimited(c.bytes)
       [] OTHER -> delimited(all(c.sub))

\* toBuffer after the given calls
RECURSIVE ToBuffer(_)
ToBuffer(calls) == IF calls = <<>> THEN <<>> ELSE WriteCall(calls[1]) \o ToBuffer(Tail(calls))

\* ------------------------------------------------------------ JSON repair
\* A text is the sequence of its characters, each a string of length one.
\* the whitespace the scanners skip, which is also the whitespace of JSON
Whitespace == {" ", "\t", "\n", "\r"}

\* the position of the first character from j on that is no whitespace, or
\* the position behind the text
RECURSIVE SkipWhitespace(_, _)
SkipWhitespace(s, j) ==
  IF j <= Len(s) /\ s[j] \in Whitespace THEN SkipWhitespace(s, j + 1) ELSE j

\* String.prototype.trim; the form feed is the one character of the inputs
\* that trim removes and the scanners do not skip
RECURSIVE Trim(_)
Trim(s) ==
  LET space == Whitespace \cup {"\f"}
  IN IF s = <<>> THEN s
     ELSE IF s[1] \in space THEN Trim(Tail(s))
     ELSE IF s[Len(s)] \in space THEN Trim(SubSeq(s, 1, Len(s) - 1))
     ELSE s

\* what a failed parse gives
ParseFailed == [ok |-> FALSE, value |-> [t |-> "none", v |-> <<>>], next |-> 0]

\* JSON.parse on a string literal whose opening quote is at position i
ParseString(s, i) ==
  LET RECURSIVE str(_, _)
      str(j, acc) ==
        IF j > Len(s) THEN ParseFailed
        ELSE IF s[j] = "\"" THEN [ok |-> TRUE, value |-> [t |-> "string", v |-> acc],
                                  next |-> j + 1]
        ELSE IF s[j] = "\\"
             THEN IF j + 1 <= Len(s) /\ s[j + 1] \in {"\"", "\\", "/"}
                  THEN str(j + 2, Append(acc, s[j + 1]))
                  ELSE IF j + 1 <= Len(s) /\ s[j + 1] \in {"n", "t", "r", "f"}
                  THEN str(j + 2, Append(acc, CASE s[j + 1] = "n" -> "\n"
                                                [] s[j + 1] = "t" -> "\t"
                                                [] s[j + 1] = "r" -> "\r"
                                                [] OTHER -> "\f"))
                  ELSE ParseFailed
        ELSE IF s[j] \in {"\t", "\n", "\r", "\f"} THEN ParseFailed
        ELSE str(j + 1, Append(acc, s[j]))
  IN str(i + 1, <<>>)

\* JSON.parse on one value from position i on: the value and the position
\* behind it. An object is the function from its keys to their values, the
\* last value of a key being the one that stays. The inputs hold no 0, sign,
\* fraction, exponent, true, false or null.
RECURSIVE ParseValue(_, _)
RECURSIVE ParseElements(_, _, _)
RECURSIVE ParseMembers(_, _, _)
ParseValue(s, i0) ==
  LET i == SkipWhitespace(s, i0)
      RECURSIVE digits(_)
      digits(j) == IF j <= Len(s) /\ s[j] \in {"1", "2"} THEN digits(j + 1) ELSE j
  IN IF i > Len(s) THEN ParseFailed
     ELSE CASE s[i] = "{" ->
                 LET j == SkipWhitespace(s, i + 1)
                 IN IF j <= Len(s) /\ s[j] = "}"
                    THEN [ok |-> TRUE, value |-> [t |-> "object", v |-> <<>>], next |-> j + 1]
                    ELSE ParseMembers(s, j, <<>>)
            [] s[i] = "[" ->
                 LET j == SkipWhitespace(s, i + 1)
                 IN IF j <= Len(s) /\ s[j] = "]"
                    THEN [ok |-> TRUE, value |-> [t |-> "array", v |-> <<>>], next |-> j + 1]
                    ELSE ParseElements(s, j, <<>>)
            [] s[i] = "\"" -> ParseString(s, i)
            [] s[i] \in {"1", "2"} ->
                 [ok |-> TRUE, value |-> [t |-> "number", v |-> SubSeq(s, i, digits(i) - 1)],
                  next |-> digits(i)]
            [] OTHER -> ParseFailed

\* the elements of an array from position i on, acc being the ones before
ParseElements(s, i, acc) ==
  LET e == ParseValue(s, i)
      j == SkipWhitespace(s, e.next)
  IN IF ~e.ok \/ j > Len(s) THEN ParseFailed
     ELSE IF s[j] = "]"
          THEN [ok |-> TRUE, value |-> [t |-> "array", v |-> Append(acc, e.value)],
                next |-> j + 1]
     ELSE IF s[j] = "," THEN ParseElements(s, j + 1, Append(acc, e.value))
     ELSE ParseFailed

\* the members of an object from position i on, acc being the ones before
ParseMembers(s, i0, acc) ==
  LET i == SkipWhitespace(s, i0)
      k == IF i <= Len(s) /\ s[i] = "\"" THEN ParseString(s, i) ELSE ParseFailed
      c == SkipWhitespace(s, k.next)
      m == IF k.ok /\ c <= Len(s) /\ s[c] = ":" THEN ParseValue(s, c + 1) ELSE ParseFailed
      j == SkipWhitespace(s, m.next)
      all == [x \in DOMAIN acc \cup {k.value.v} |-> IF x = k.value.v THEN m.value ELSE acc[x]]
  IN IF ~m.ok \/ j > Len(s) THEN ParseFailed
     ELSE IF s[j] = "}"
          THEN [ok |-> TRUE, value |-> [t |-> "object", v |-> all], next |-> j + 1]
     ELSE IF s[j] = "," THEN ParseMembers(s, j + 1, all)
     ELSE ParseFailed

\* JSON.parse: one value with whitespace around it and nothing else
JsonParse(s) ==
  LET r == ParseValue(s, 1)
  IN IF r.ok /\ SkipWhitespace(s, r.next) > Len(s)
     THEN [ok |-> TRUE, value |-> r.value]
     ELSE [ok |-> FALSE, value |-> ParseFailed.value]

\* step 2 of repairJson: every </s> removed, then the control characters at
\* the end (the form feed is the one among the inputs), then trim
StripTail(s) ==
  LET RECURSIVE unmarked(_)
      unmarked(j) ==
        IF j > Len(s) THEN <<>>
        ELSE IF j + 3 <= Len(s) /\ SubSeq(s, j, j + 3) = <<"<", "/", "s", ">">>
             THEN unmarked(j + 4)
             ELSE <<s[j]>> \o unmarked(j + 1)
      RECURSIVE uncontrolled(_)
      uncontrolled(t) == IF t # <<>> /\ t[Len(t)] = "\f"
                         THEN uncontrolled(SubSeq(t, 1, Len(t) - 1)) ELSE t
  IN Trim(uncontrolled(unmarked(1)))

\* a comma removal that does not look at strings
RemoveTrailingCommasAnywhere(s) ==
  LET RECURSIVE scan(_)
      scan(i) ==
        IF i > Len(s) THEN <<>>
        ELSE IF s[i] = "," /\ SkipWhitespace(s, i + 1) <= Len(s)
                /\ s[SkipWhitespace(s, i + 1)] \in {"}", "]"}
             THEN scan(i + 1)
             ELSE <<s[i]>> \o scan(i + 1)
  IN scan(1)

\* removeTrailingCommas
RemoveTrailingCommas(s) ==
  LET RECURSIVE scan(_, _, _, _, _)
      scan(i, result, inString, quote, escaped) ==
        IF i > Len(s) THEN result
        ELSE LET ch == s[i]
                 j == SkipWhitespace(s, i + 1)
             IN IF escaped THEN scan(i + 1, Append(result, ch), inString, quote, FALSE)
                ELSE IF ch = "\\"
                     THEN scan(i + 1, Append(result, ch), inString, quote, inString)
                ELSE IF inString
                     THEN scan(i + 1, Append(result, ch), ch # quote, quote, FALSE)
                ELSE IF ch \in {"\"", "'"}
                     THEN scan(i + 1, Append(result, ch), TRUE, ch, FALSE)
                ELSE IF ch = "," /\ j <= Len(s) /\ s[j] \in {"}", "]"}
                     THEN scan(i + 1, result, FALSE, quote, FALSE)
                ELSE scan(i + 1, Append(result, ch), FALSE, quote, FALSE)
  IN scan(1, <<>>, FALSE, "", FALSE)

\* fixKeyQuotes; keyEnd is 0 where the code has -1
FixKeyQuotes(s) ==
  LET RECURSIVE keyEnd(_)
      keyEnd(j) ==
        IF j > Len(s) THEN [at |-> 0, hasTrailingQuote |-> FALSE]
        ELSE IF s[j] = ":" THEN [at |-> j, hasTrailingQuote |-> FALSE]
        ELSE IF s[j] = "\""
             THEN LET k == SkipWhitespace(s, j + 1)
                  IN IF k <= Len(s) /\ s[k] = ":"
                     THEN [at |-> j, hasTrailingQuote |-> TRUE]
                     ELSE [at |-> 0, hasTrailingQuote |-> FALSE]
        ELSE keyEnd(j + 1)
      RECURSIVE scan(_, _, _, _, _, _)
      scan(i, result, inString, quote, escaped, lastSignificant) ==
        IF i > Len(s) THEN result
        ELSE LET ch == s[i]
                 key == keyEnd(i)
             IN IF escaped
                THEN scan(i + 1, Append(result, ch), inString, quote, FALSE, lastSignificant)
                ELSE IF ch = "\\"
                THEN scan(i + 1, Append(result, ch), inString, quote, inString, lastSignificant)
                ELSE IF inString
                THEN scan(i + 1, Append(result, ch), ch # quote, quote, FALSE, lastSignificant)
                ELSE IF ch \in {"\"", "'"}
                THEN scan(i + 1, Append(result, ch), TRUE, ch, FALSE, ch)
                ELSE IF ch \in Whitespace
                THEN scan(i + 1, Append(result, ch), FALSE, quote, FALSE, lastSignificant)
                ELSE IF ch \in {"{", "}", "[", "]", ":", ","}
                THEN scan(i + 1, Append(result, ch), FALSE, quote, FALSE, ch)
                ELSE IF lastSignificant \in {"{", ","} /\ key.at # 0
                THEN scan(IF key.hasTrailingQuote THEN key.at + 1 ELSE key.at,
                          result \o <<"\"">> \o Trim(SubSeq(s, i, key.at - 1)) \o <<"\"">>,
                          FALSE, quote, FALSE, "\"")
                ELSE scan(i + 1, Append(result, ch), FALSE, quote, FALSE, ch)
  IN scan(1, <<>>, FALSE, "", FALSE, "")

\* singleToDoubleQuotes
SingleToDoubleQuotes(s) ==
  LET RECURSIVE scan(_, _, _, _, _)
      scan(i, result, inString, quote, escaped) ==
        IF i > Len(s) THEN result
        ELSE LET ch == s[i]
             IN IF escaped THEN scan(i + 1, Append(result, ch), inString, quote, FALSE)
                ELSE IF ch = "\\"
                     THEN scan(i + 1, Append(result, ch), inString, quote, inString)
                ELSE IF inString /\ ch = quote
                     THEN scan(i + 1, Append(result, "\""), FALSE, quote, FALSE)
                ELSE IF inString /\ ch = "\"" /\ quote = "'"
                     THEN scan(i + 1, result \o <<"\\", "\"">>, TRUE, quote, FALSE)
                ELSE IF inString
                     THEN scan(i + 1, Append(result, ch), TRUE, quote, FALSE)
                ELSE IF ch \in {"\"", "'"}
                     THEN scan(i + 1, Append(result, "\""), TRUE, ch, FALSE)
                ELSE scan(i + 1, Append(result, ch), FALSE, quote, FALSE)
  IN scan(1, <<>>, FALSE, "", FALSE)

\* closeUnclosedBrackets; the stack has its top at the front
CloseUnclosedBrackets(s) ==
  LET RECURSIVE scan(_, _, _, _, _)
      scan(i, stack, inString, quote, escaped) ==
        IF i > Len(s) THEN s \o (IF inString THEN <<quote>> ELSE <<>>) \o stack
        ELSE LET ch == s[i]
             IN IF escaped THEN scan(i + 1, stack, inString, quote, FALSE)
                ELSE IF ch = "\\" THEN scan(i + 1, stack, inString, quote, inString)
                ELSE IF inString THEN scan(i + 1, stack, ch # quote, quote, FALSE)
                ELSE IF ch \in {"\"", "'"} THEN scan(i + 1, stack, TRUE, ch, FALSE)
                ELSE IF ch = "{" THEN scan(i + 1, <<"}">> \o stack, FALSE, quote, FALSE)
                ELSE IF ch = "[" THEN scan(i + 1, <<"]">> \o stack, FALSE, quote, FALSE)
                ELSE IF ch \in {"}", "]"} /\ stack # <<>>
                     THEN scan(i + 1, Tail(stack), FALSE, quote, FALSE)
                ELSE scan(i + 1, stack, FALSE, quote, FALSE)
  IN scan(1, <<>>, FALSE, "", FALSE)

\* the names of the steps of repairJson, in the order of the code
RepairSteps ==
  <<"raw", "strip_tail", "trailing_commas", "fix_key_quotes", "single_to_double_quotes",
    "close_brackets">>

\* a ladder that closes the brackets before it looks at the keys
RepairStepClosesFirst(n, s) ==
  CASE n = 1 -> s
    [] n = 2 -> StripTail(s)
    [] n = 3 -> RemoveTrailingCommas(s)
    [] n = 4 -> CloseUnclosedBrackets(s)
    [] n = 5 -> FixKeyQuotes(s)
    [] OTHER -> SingleToDoubleQuotes(s)

\* the text the n-th step of repairJson parses, s being the text of the step
\* before it
RepairStep(n, s) ==
  CASE n = 1 -> s
    [] n = 2 -> StripTail(s)
    [] n = 3 -> RemoveTrailingCommas(s)
    [] n = 4 -> FixKeyQuotes(s)
    [] n = 5 -> SingleToDoubleQuotes(s)
    [] OTHER -> CloseUnclosedBrackets(s)

\* ---------------------------------------------------- tool-call extractor
\* an extraction that takes everything from the first opening bracket on
ExtractToEnd(text, fromIdx) ==
  LET RECURSIVE first(_)
      first(i) == IF i > Len(text) THEN 0
                  ELSE IF text[i] \in {"{", "["} THEN i ELSE first(i + 1)
      start == first(fromIdx + 1)
  IN IF start = 0 THEN [found |-> FALSE, jsonLike |-> <<>>, unterminated |-> FALSE]
     ELSE [found |-> TRUE, jsonLike |-> SubSeq(text, start, Len(text)), unterminated |-> TRUE]

\* extractJsonLikeArgs: the text from the first opening bracket at or after
\* fromIdx (counted from 0) to the closing bracket that takes the depth
\* back to 0, or to the end of the text
ExtractJsonLikeArgs(text, fromIdx) ==
  LET RECURSIVE first(_)
      first(i) == IF i > Len(text) THEN 0
                  ELSE IF text[i] \in {"{", "["} THEN i ELSE first(i + 1)
      start == first(fromIdx + 1)
      RECURSIVE scan(_, _, _, _, _)
      scan(i, depth, inString, quote, escaped) ==
        IF i > Len(text)
        THEN [found |-> TRUE, jsonLike |-> SubSeq(text, start, Len(text)),
              unterminated |-> TRUE]
        ELSE LET ch == text[i]
             IN IF escaped THEN scan(i + 1, depth, inString, quote, FALSE)
                ELSE IF ch = "\\" THEN scan(i + 1, depth, inString, quote, inString)
                ELSE IF inString
                     THEN IF ch = quote THEN scan(i + 1, depth, FALSE, "", FALSE)
                          ELSE scan(i + 1, depth, TRUE, quote, FALSE)
                ELSE IF ch \in {"\"", "'"} THEN scan(i + 1, depth, TRUE, ch, FALSE)
                ELSE IF ch \in {"{", "["} THEN scan(i + 1, depth + 1, FALSE, quote, FALSE)
                ELSE IF ch \in {"}", "]"}
                     THEN IF depth - 1 = 0
                          THEN [found |-> TRUE, jsonLike |-> SubSeq(text, start, i),
                                unterminated |-> FALSE]
                          ELSE scan(i + 1, depth - 1, FALSE, quote, FALSE)
                ELSE scan(i + 1, depth, FALSE, quote, FALSE)
  IN IF start = 0 THEN [found |-> FALSE, jsonLike |-> <<>>, unterminated |-> FALSE]
     ELSE scan(start, 0, FALSE, "", FALSE)

\* parseToolCallRobust: null, or the thinking, the name and the arguments of
\* the first [TOOL_CALLS]name[ARGS] of the text without its </s>
ParseToolCallRobust(text0) ==
  LET RECURSIVE unmarked(_)
      unmarked(j) ==
        IF j > Len(text0) THEN <<>>
        ELSE IF j + 3 <= Len(text0) /\ SubSeq(text0, j, j + 3) = <<"<", "/", "s", ">">>
             THEN unmarked(j + 4)
             ELSE <<text0[j]>> \o unmarked(j + 1)
      word ==
        {"a", "b", "c", "d", "e", "f", "g", "h", "i", "j", "k", "l", "m",
         "n", "o", "p", "q", "r", "s", "t", "u", "v", "w", "x", "y", "z",
         "A", "B", "C", "D", "E", "F", "G", "H", "I", "J", "K", "L", "M",
         "N", "O", "P", "Q", "R", "S", "T", "U", "V", "W", "X", "Y", "Z",
         "0", "1", "2", "3", "4", "5", "6", "7", "8", "9", "_"}
      calls == <<"[", "T", "O", "O", "L", "_", "C", "A", "L", "L", "S", "]">>
      args == <<"[", "A", "R", "G", "S", "]">>
      null == [null |-> TRUE, thinking |-> <<>>, name |-> <<>>, arguments |-> ParseFailed.value]
      at(text, p, lit) ==
        p + Len(lit) - 1 <= Len(text) /\ SubSeq(text, p, p + Len(lit) - 1) = lit
      RECURSIVE run(_, _)
      run(text, q) == IF q <= Len(text) /\ text[q] \in word THEN run(text, q + 1) ELSE q
      named(text, p, nameEnd) == nameEnd > p + 12 /\ at(text, nameEnd, args)
      matches(text, p) == at(text, p, calls) /\ named(text, p, run(text, p + 12))
      RECURSIVE match(_, _)
      match(text, p) ==
        IF p > Len(text) THEN 0 ELSE IF matches(text, p) THEN p ELSE match(text, p + 1)
      RECURSIVE repairJson(_, _)
      tried(n, t, parsed) ==
        IF parsed.ok \/ n = Len(RepairSteps) THEN parsed ELSE repairJson(n + 1, t)
      step(n, t) == tried(n, t, JsonParse(t))
      repairJson(n, s) == step(n, RepairStep(n, s))
      repaired(text, m, nameEnd, result) ==
        IF ~result.ok THEN null
        ELSE [null |-> FALSE, thinking |-> Trim(SubSeq(text, 1, m - 1)),
              name |-> SubSeq(text, m + 12, nameEnd - 1), arguments |-> result.value]
      found(text, m, nameEnd, extracted) ==
        IF ~extracted.found THEN null
        ELSE repaired(text, m, nameEnd, repairJson(1, extracted.jsonLike))
      \* argsStart is the position after the name and "[ARGS]"
      extract(text, m, nameEnd) ==
        found(text, m, nameEnd, ExtractJsonLikeArgs(text, nameEnd + 5))
      matched(text, m) == IF m = 0 THEN null ELSE extract(text, m, run(text, m + 12))
      parse(text) == matched(text, match(text, 1))
  IN parse(unmarked(1))

\* _parseAnswer on the text of an answer: one entry for every match of
\* /<file\s+path="([^"]+)">([\s\S]*?)<\/file>/g, with the path without
\* /^\/codebase\/?/ and the number pairs of every match of
\* /<range>(\d+)-(\d+)<\/range>/g in the body. The full_path of an entry,
\* join(projectRoot, path), is a function of its path and is not kept.
ParseAnswerText(xmlText) ==
  LET at(s, p, lit) == p + Len(lit) - 1 <= Len(s) /\ SubSeq(s, p, p + Len(lit) - 1) = lit
      least(S) == CHOOSE p \in S : \A o \in S : p <= o
      find(s, p, lit) == LET hits == {o \in p..Len(s) : at(s, o, lit)}
                         IN IF hits = {} THEN 0 ELSE least(hits)
      spaces(p) ==
        least({o \in p..Len(xmlText) : xmlText[o] \notin Whitespace \cup {"\f"}}
              \cup {Len(xmlText) + 1})
      nonQuotes(p) == least({o \in p..Len(xmlText) : xmlText[o] = "\""} \cup {Len(xmlText) + 1})
      digit == "0" :> 0 @@ "1" :> 1 @@ "2" :> 2 @@ "3" :> 3 @@ "4" :> 4 @@ "5" :> 5
               @@ "6" :> 6 @@ "7" :> 7 @@ "8" :> 8 @@ "9" :> 9
      digits(s, p) == least({o \in p..Len(s) : s[o] \notin DOMAIN digit} \cup {Len(s) + 1})
      RECURSIVE parseInt(_)
      parseInt(ds) == IF ds = <<>> THEN 0
                      ELSE 10 * parseInt(SubSeq(ds, 1, Len(ds) - 1)) + digit[ds[Len(ds)]]
      none == [ok |-> FALSE, next |-> 0, vpath |-> <<>>, body |-> <<>>, pair |-> <<>>]
      rangeAt(s, p) ==
        LET a == digits(s, p + 7)
            b == digits(s, a + 1)
        IN IF at(s, p, <<"<", "r", "a", "n", "g", "e", ">">>) /\ a > p + 7
              /\ at(s, a, <<"-">>) /\ b > a + 1
              /\ at(s, b, <<"<", "/", "r", "a", "n", "g", "e", ">">>)
           THEN [none EXCEPT !.ok = TRUE, !.next = b + 8,
                             !.pair = <<parseInt(SubSeq(s, p + 7, a - 1)),
                                        parseInt(SubSeq(s, a + 1, b - 1))>>]
           ELSE none
      RECURSIVE ranges(_, _)
      ranges(s, p) == LET hits == {o \in p..Len(s) : rangeAt(s, o).ok}
                      IN IF hits = {} THEN <<>>
                         ELSE <<rangeAt(s, least(hits)).pair>>
                              \o ranges(s, rangeAt(s, least(hits)).next)
      fileAt(p) ==
        LET a == spaces(p + 5)
            b == nonQuotes(a + 6)
            c == find(xmlText, b + 2, <<"<", "/", "f", "i", "l", "e", ">">>)
        IN IF at(xmlText, p, <<"<", "f", "i", "l", "e">>) /\ a > p + 5
              /\ at(xmlText, a, <<"p", "a", "t", "h", "=", "\"">>)
              /\ b > a + 6 /\ at(xmlText, b, <<"\"", ">">>) /\ c > 0
           THEN [none EXCEPT !.ok = TRUE, !.next = c + 7,
                             !.vpath = SubSeq(xmlText, a + 6, b - 1),
                             !.body = SubSeq(xmlText, b + 2, c - 1)]
           ELSE none
      rel(vpath) ==
        IF at(vpath, 1, <<"/", "c", "o", "d", "e", "b", "a", "s", "e">>)
        THEN SubSeq(vpath, IF at(vpath, 10, <<"/">>) THEN 11 ELSE 10, Len(vpath))
        ELSE vpath
      RECURSIVE files(_)
      files(p) == LET hits == {o \in p..Len(xmlText) : fileAt(o).ok}
                      fm == fileAt(least(hits))
                  IN IF hits = {} THEN <<>>
                     ELSE <<[path |-> rel(fm.vpath), ranges |-> ranges(fm.body, 1)]>>
                          \o files(fm.next)
  IN [files |-> files(1)]

\* _parseResponse on the bytes of a response body. A text is the sequence of
\* its characters; the characters of the inputs are those of ASCII (without
\* the grave accent), any other code point is shown as "U+". A frame on
\* which extractStrings never returns (its position i comes back to a value
\* it had) makes the call hang.
ParseResponse(data) ==
  LET ascii == 9 :> "\t" @@ 10 :> "\n" @@ 12 :> "\f" @@ 13 :> "\r" @@ 32 :> " " @@ 33 :> "!" @@
               34 :> "\"" @@ 35 :> "#" @@ 36 :> "$" @@ 37 :> "%" @@ 38 :> "&" @@ 39 :> "'" @@
               40 :> "(" @@ 41 :> ")" @@ 42 :> "*" @@ 43 :> "+" @@ 44 :> "," @@ 45 :> "-" @@
               46 :> "." @@ 47 :> "/" @@ 48 :> "0" @@ 49 :> "1" @@ 50 :> "2" @@ 51 :> "3" @@
               52 :> "4" @@ 53 :> "5" @@ 54 :> "6" @@ 55 :> "7" @@ 56 :> "8" @@ 57 :> "9" @@
               58 :> ":" @@ 59 :> ";" @@ 60 :> "<" @@ 61 :> "=" @@ 62 :> ">" @@ 63 :> "?" @@
               64 :> "@" @@ 65 :> "A" @@ 66 :> "B" @@ 67 :> "C" @@ 68 :> "D" @@ 69 :> "E" @@
               70 :> "F" @@ 71 :> "G" @@ 72 :> "H" @@ 73 :> "I" @@ 74 :> "J" @@ 75 :> "K" @@
               76 :> "L" @@ 77 :> "M" @@ 78 :> "N" @@ 79 :> "O" @@ 80 :> "P" @@ 81 :> "Q" @@
               82 :> "R" @@ 83 :> "S" @@ 84 :> "T" @@ 85 :> "U" @@ 86 :> "V" @@ 87 :> "W" @@
               88 :> "X" @@ 89 :> "Y" @@ 90 :> "Z" @@ 91 :> "[" @@ 92 :> "\\" @@ 93 :> "]" @@
               94 :> "^" @@ 95 :> "_" @@ 97 :> "a" @@ 98 :> "b" @@ 99 :> "c" @@
               100 :> "d" @@ 101 :> "e" @@ 102 :> "f" @@ 103 :> "g" @@ 104 :> "h" @@ 105 :> "i" @@
               106 :> "j" @@ 107 :> "k" @@ 108 :> "l" @@ 109 :> "m" @@ 110 :> "n" @@ 111 :> "o" @@
               112 :> "p" @@ 113 :> "q" @@ 114 :> "r" @@ 115 :> "s" @@ 116 :> "t" @@ 117 :> "u" @@
               118 :> "v" @@ 119 :> "w" @@ 120 :> "x" @@ 121 :> "y" @@ 122 :> "z" @@ 123 :> "{" @@
               124 :> "|" @@ 125 :> "}" @@ 126 :> "~"
      chars(points) == [k \in 1..Len(points) |->
                          IF points[k] \in DOMAIN ascii THEN ascii[points[k]] ELSE "U+"]
      stripInvalidUtf8(buf) == chars(SelectSeq(Utf8Text(buf), LAMBDA c : c # ReplacementChar))
      error == <<"e", "r", "r", "o", "r">>
      truthy(x) == ~(x.t = "string" /\ x.v = <<>>)
      member(x, key) == IF x.t = "object" /\ key \in DOMAIN x.v THEN x.v[key]
                        ELSE ParseFailed.value
      RECURSIVE toString(_)
      toString(x) ==
        LET RECURSIVE joined(_)
            joined(es) == IF es = <<>> THEN <<>>
                          ELSE IF Len(es) = 1 THEN toString(es[1])
                          ELSE toString(es[1]) \o <<",">> \o joined(Tail(es))
        IN CASE x.t \in {"string", "number"} -> x.v
             [] x.t = "array" -> joined(x.v)
             [] OTHER -> <<"[", "o", "b", "j", "e", "c", "t", " ", "O", "b", "j", "e", "c", "t", "]">>
      orElse(x, default) == IF x.t # "none" /\ truthy(x) THEN toString(x) ELSE default
      errorText(err) ==
        IF err.t # "none" /\ truthy(err)
        THEN [is |-> TRUE,
              text |-> <<"[", "E", "r", "r", "o", "r", "]", " ">>
                       \o orElse(member(err, <<"c", "o", "d", "e">>),
                                 <<"u", "n", "k", "n", "o", "w", "n">>)
                       \o <<":", " ">>
                       \o orElse(member(err, <<"m", "e", "s", "s", "a", "g", "e">>), <<>>)]
        ELSE [is |-> FALSE, text |-> <<>>]
      errorIn(errObj) ==
        IF errObj.ok THEN errorText(member(errObj.value, error))
        ELSE [is |-> FALSE, text |-> <<>>]
      errorAt(textCandidate) ==
        IF textCandidate # <<>> /\ textCandidate[1] = "{"
        THEN errorIn(JsonParse(textCandidate))
        ELSE [is |-> FALSE, text |-> <<>>]
      errorOf(frameData) == errorAt(chars(Utf8Text(frameData)))
      includes(s, lit) == \E p \in 1..(Len(s) - Len(lit) + 1) : SubSeq(s, p, p + Len(lit) - 1) = lit
      RECURSIVE loop(_, _, _)
      loop(frameData, st, seen) ==
        IF ~(st.i < Len(frameData)) \/ st.stopped THEN [hangs |-> FALSE, strings |-> st.strings]
        ELSE IF st.i \in seen THEN [hangs |-> TRUE, strings |-> <<>>]
        ELSE loop(frameData, ExtractStep(frameData, st), seen \cup {st.i})
      extractStrings(frameData) ==
        loop(frameData, [i |-> 0, strings |-> <<>>, stopped |-> FALSE], {})
      RECURSIVE long(_)
      long(strings) == IF strings = <<>> THEN <<>>
                       ELSE (IF Len(strings[1]) > 10 THEN chars(strings[1]) ELSE <<>>)
                            \o long(Tail(strings))
      marker == <<"[", "T", "O", "O", "L", "_", "C", "A", "L", "L", "S", "]">>
      frame(err, rawText, extracted, allText) ==
        IF err.is THEN [end |-> "return", text |-> err.text]
        ELSE IF includes(rawText, marker) THEN [end |-> "break", text |-> rawText]
        ELSE IF extracted.hangs THEN [end |-> "hang", text |-> <<>>]
        ELSE [end |-> "next", text |-> allText \o long(extracted.strings)]
      RECURSIVE frames(_, _)
      after(fs, now) == IF now.end = "next" THEN frames(Tail(fs), now.text) ELSE now
      frames(fs, allText) ==
        IF fs = <<>> THEN [end |-> "break", text |-> allText]
        ELSE after(fs, frame(errorOf(fs[1]), stripInvalidUtf8(fs[1]),
                             extractStrings(fs[1]), allText))
      result(loopEnd, parsed) ==
        IF loopEnd.end = "break" /\ ~parsed.null
        THEN [hangs |-> FALSE, text |-> parsed.thinking, null |-> FALSE,
              name |-> parsed.name, arguments |-> parsed.arguments]
        ELSE [hangs |-> loopEnd.end = "hang", text |-> loopEnd.text, null |-> TRUE,
              name |-> <<>>, arguments |-> ParseFailed.value]
      parse(loopEnd) == result(loopEnd, ParseToolCallRobust(loopEnd.text))
  IN parse(frames(ConnectFrameDecode(data).frames, <<>>))

\* ------------------------------------------------- inputs of the codec
\* Numbers for _varint are made of the bit positions at both ends of the
\* first three groups, the sign bit of an int32, and positions above it.
\* Protobuf bytes for extractStrings are short sequences of every kind, and
\* length-delimited fields whose length varint is short, long, or has the
\* sign bit set. Response bodies are up to MaxFrames frames of
\* connectFrameEncode with the last cut bytes lost, short byte sequences
\* of every kind, and up to MaxFrames frames with a flag byte of 0, 1, 2, 3
\* or 5 whose body is a gzip container (of the content), plain bytes, or
\* bytes that only begin as a container. Write calls on a ProtobufEncoder
\* are of every method, with field numbers whose tag takes one byte and two,
\* and a sub-encoder with up to one call of its own.
CodecFunctions ==
  {"_varint", "extractStrings", "connectFrameEncode", "connectFrameDecode", "toBuffer"}

\* the inputs of the codec function fn
CodecApps(fn) ==
  LET VarintBitPositions == {0, 6, 7, 13, 14, 27, 28, 31, 32, 35}
      any == SeqsUpTo({0, 8, 9, 10, 13, 15, 97, 250}, MaxBytes)
      lengths == {<<6>>, <<7>>, <<134, 0>>, <<134, 128, 128, 128, 16>>,
                  <<250, 255, 255, 255, 15>>, <<255, 255, 255, 255, 15>>,
                  <<128, 128, 128, 128, 8>>, <<252, 255, 255, 255, 15>>}
      tails == {<<>>, <<97, 98, 99, 100, 101, 102>>, <<97, 98, 99, 100, 101, 250>>,
                <<97, 195, 169, 99, 100, 101, 102>>, <<97, 98, 99, 100, 101, 102, 8, 1>>}
      ExtractBytes == any \cup {<<10>> \o l \o t : l \in lengths, t \in tails}
      payloads == {<<>>, <<31>>, <<0, 1>>, <<31, 1, 0>>}
      frame == [payload : payloads, compress : BOOLEAN]
      flagged == {[flags |-> f, zipped |-> z, content |-> <<7, 8>>,
                   body |-> IF z THEN Gzip(<<7, 8>>) ELSE b] :
                    f \in {0, 1, 2, 3, 5}, z \in BOOLEAN, b \in {<<7, 8>>, <<31, 9>>}}
      RECURSIVE wire(_)
      wire(fs) == IF fs = <<>> THEN <<>>
                  ELSE <<fs[1].flags, 0, 0, 0, Len(fs[1].body)>> \o fs[1].body \o wire(Tail(fs))
      flat == [op : {"writeVarint"}, field : {1, 16}, number : {{}, {7}, {0, 31}, {32}}]
              \cup [op : {"writeString"}, field : {2}, string : {<<>>, <<233, 97>>}]
              \cup [op : {"writeBytes"}, field : {3}, bytes : {<<>>, <<255, 8>>}]
      WriteCalls == flat \cup [op : {"writeMessage"}, field : {17},
                               sub : SeqsUpTo(flat, 1)]
  IN CASE fn = "_varint" ->
            {[fn |-> fn, in |-> [value |-> v], done |-> FALSE, out |-> [bytes |-> <<>>]] :
               v \in SUBSET VarintBitPositions}
       [] fn = "extractStrings" ->
            {[fn |-> fn, in |-> [data |-> data], done |-> FALSE,
              out |-> [i |-> 0, strings |-> <<>>, stopped |-> FALSE]] : data \in ExtractBytes}
       [] fn = "connectFrameEncode" ->
            {[fn |-> fn, in |-> [frames |-> fs, cut |-> cut], done |-> FALSE,
              out |-> [data |-> <<>>]] :
               fs \in SeqsUpTo(frame, MaxFrames) \ {<<>>}, cut \in 0..MaxCut}
       [] fn = "connectFrameDecode" ->
            {[fn |-> fn, in |-> [frames |-> <<>>, cut |-> 0], done |-> FALSE,
              out |-> [data |-> data]] : data \in SeqsUpTo({0, 1, 3, 31}, MaxBytes + 3)}
            \cup {[fn |-> fn, in |-> [frames |-> <<>>, cut |-> 0, flagged |-> fs],
                   done |-> FALSE, out |-> [data |-> wire(fs)]] :
                    fs \in SeqsUpTo(flagged, MaxFrames) \ {<<>>}}
       [] OTHER ->
            {[fn |-> fn, in |-> [calls |-> calls], done |-> FALSE,
              out |-> [bytes |-> <<>>]] : calls \in SeqsUpTo(WriteCalls, MaxCalls)}

\* ------------------------------------------- inputs of the JSON repair
\* Valid texts are arrays and objects of up to MaxMembers numbers, strings
\* and small containers, the keys of an object being k and a in turn; the
\* strings hold a comma before a closer, a colon, an escaped quote and the
\* end marker. A text is handed over as it is, with
\* the end marker behind it, with a comma (and a space) put before one of its
\* closers, without its last closers, or, for an object of strings, with keys
\* that lack the leading quote or both quotes or are quoted singly. orig is
\* the valid text a text was made from.
RepairApps ==
  LET Q(c) == <<"\"">> \o c \o <<"\"">>
      marker == <<"<", "/", "s", ">">>
      quantifier == Q(<<"a", "{", "1", ",", "}">>)
      strings == {Q(<<"a">>), quantifier, Q(<<":", "a">>), Q(marker),
                  Q(<<",", " ", "]", "\\", "\"">>)}
      RECURSIVE list(_)
      list(items) == IF items = <<>> THEN <<>>
                     ELSE IF Len(items) = 1 THEN items[1]
                     ELSE items[1] \o <<",">> \o list(Tail(items))
      inner == {<<"1">>} \cup strings
               \cup {<<"[", "1", ",", "1", "]">>,
                     <<"{">> \o Q(<<"k">>) \o <<":">> \o Q(<<"a">>) \o <<"}">>}
      name(j) == IF j % 2 = 1 THEN <<"k">> ELSE <<"a">>
      key(j, style) == CASE style = "quoted" -> Q(name(j))
                         [] style = "no leading quote" -> name(j) \o <<"\"">>
                         [] style = "unquoted" -> name(j)
                         [] OTHER -> <<"'">> \o name(j) \o <<"'">>
      object(ms, plain) ==
        <<"{">> \o list([j \in 1..Len(ms) |->
                           key(j, IF plain THEN "quoted" ELSE ms[j].style)
                             \o <<":">> \o ms[j].value]) \o <<"}">>
      arrays == {<<"[">> \o list(es) \o <<"]">> : es \in SeqsUpTo(inner, MaxMembers)}
      objects == {object(ms, TRUE) :
                    ms \in SeqsUpTo([style : {"quoted"}, value : inner], MaxMembers)}
      valid == arrays \cup objects
      RECURSIVE quotes(_, _)
      quotes(t, p) == IF p = 0 THEN 0
                      ELSE quotes(t, p - 1)
                           + (IF t[p] = "\"" /\ (p = 1 \/ t[p - 1] # "\\") THEN 1 ELSE 0)
      closers(t) == {p \in 1..Len(t) : t[p] \in {"}", "]"} /\ quotes(t, p) % 2 = 0}
      RECURSIVE tail(_)
      tail(t) == IF t # <<>> /\ t[Len(t)] \in {"}", "]"}
                 THEN 1 + tail(SubSeq(t, 1, Len(t) - 1)) ELSE 0
      styled == [style : {"quoted", "no leading quote", "unquoted", "single"},
                 value : {Q(<<"a">>), quantifier, Q(marker)}]
      kind(ms) == IF \E j \in 1..Len(ms) : ms[j].style = "single" THEN "single" ELSE "keys"
      texts ==
        {[text |-> t, orig |-> t, kind |-> "valid"] : t \in valid}
        \cup {[text |-> t \o marker, orig |-> t, kind |-> "marker"] : t \in valid}
        \cup UNION {{[text |-> SubSeq(t, 1, p - 1) \o <<",">> \o w \o SubSeq(t, p, Len(t)),
                      orig |-> t, kind |-> "comma"] : p \in closers(t), w \in {<<>>, <<" ">>}} :
                    t \in valid}
        \cup UNION {{[text |-> SubSeq(t, 1, Len(t) - n), orig |-> t, kind |-> "closers"] :
                      n \in 1..tail(t)} : t \in valid}
        \cup {[text |-> object(ms, FALSE), orig |-> object(ms, TRUE), kind |-> kind(ms)] :
                ms \in SeqsUpTo(styled, MaxMembers) \ {<<>>}}
  IN {[fn |-> "repairJson", in |-> i, done |-> FALSE,
       out |-> [texts |-> <<>>, ok |-> FALSE, value |-> ParseFailed.value, step |-> "none"]] :
        i \in texts}

\* --------------------------------------- inputs of the tool-call extractor
\* longest text of brackets, quotes and backslashes given to
\* extractJsonLikeArgs
MaxText == 4

\* most parts (file elements, defective elements, other text) of an answer
MaxParts == 2

\* Texts for extractJsonLikeArgs are all texts of up to MaxText brackets,
\* quotes, backslashes and letters, and some longer ones, from position 0
\* and 1. Texts for parseToolCallRobust are made of what stands before the
\* call marker, the marker (whole, broken by an end marker, without a name,
\* with a name that is no word, or absent), the arguments (valid, defective
\* in the ways repairJson mends, cut short, beyond repair, or no brackets at
\* all) and what follows them. Answers for _parseAnswer are up to MaxParts
\* parts, bare or inside <ANSWER>: well-formed file elements (with whitespace
\* in the tag, with and without the virtual root, with ranges that are well
\* formed and not), defective ones (not closed, without a path, with a path
\* in single quotes, with an empty path, a range outside every file) and
\* other text; a part carries the path and the ranges a well-formed file
\* element stands for. Response bodies for _parseResponse are up to MaxFrames
\* frames: JSON objects with an error member (with and without a code, gzip
\* compressed, with the empty string as error), another JSON object, frames
\* with the call marker (with arguments and without), protobuf string fields
\* of 12 and of 6 characters, and a string field whose length varint has the
\* sign bit of an int32 set; a frame carries the text the turn ends with when
\* the frame decides it, and whether that is a tool call.
ParseApps(fn) ==
  LET chars == {"{", "}", "[", "]", "\"", "'", "\\", "a"}
      longer ==
        {<<"{", "\"", "a", "\"", ":", "\"", "{", "b", "}", "\"", "}", "x">>,
         <<"x", "{", "\"", "a", "\"", ":", "\"", "\\", "\"", "}", "\"", "}">>,
         <<"[", "'", "a", "]", "'", ",", "{", "}", "]", "]">>,
         <<"{", "\"", "a", "\"", ":", "[", "1", ",", "2", "}", "]", "}">>}
      befores ==
        {<<>>, <<" ", "t", "h", "\n">>, <<"a", "<", "/", "s", ">", " ">>,
         <<"[", "T", "O", "O", "L", "_", "C", "A", "L", "L", "S", "]", " ">>}
      calls ==
        {[text |-> <<>>, marked |-> FALSE],
         [text |-> <<"[", "T", "O", "O", "L", "_", "C", "A", "L", "L", "S", "]", "r", "g", "[", "A", "R", "G", "S", "]">>, marked |-> TRUE],
         [text |-> <<"[", "T", "O", "O", "L", "_", "<", "/", "s", ">", "C", "A", "L", "L", "S", "]", "r", "g", "[", "A", "R", "G", "S", "]">>, marked |-> TRUE],
         [text |-> <<"[", "T", "O", "O", "L", "_", "C", "A", "L", "L", "S", "]", "[", "A", "R", "G", "S", "]">>, marked |-> FALSE],
         [text |-> <<"[", "T", "O", "O", "L", "_", "C", "A", "L", "L", "S", "]", "r", "-", "g", "[", "A", "R", "G", "S", "]">>, marked |-> FALSE]}
      arguments ==
        {<<"{", "\"", "k", "\"", ":", "\"", "a", "\"", "}">>,
         <<"[", "1", ",", "{", "\"", "k", "\"", ":", "\"", "a", "{", "1", ",", "}", "\"", "}", "]">>,
         <<"{", "\"", "k", "\"", ":", "\"", "}", "\"", "}">>,
         <<"{", "k", "\"", ":", "\"", "a", "\"", ",", "\"", "a", "\"", ":", "\"", "2", "\"", "}">>,
         <<"{", "'", "k", "'", ":", "'", "a", "'", "}">>,
         <<"{", "\"", "k", "\"", ":", "\"", "a", "\"", ",", "}">>,
         <<"{", "\"", "k", "\"", ":", "[", "\"", "a", "\"">>,
         <<" ", "\n", "{", "\"", "k", "\"", ":", "\"", "a", "\"", "}">>,
         <<"n", "o", " ", "j", "s", "o", "n">>, <<>>, <<"{", "]">>,
         <<"{", "\"", "k", "\"", ":", "}">>,
         <<"{", "\"", "k", "\"", ":", "\"", "a", "\"", "}", "}">>,
         <<"{", "\"", "k", "\"", ":", "\"", "<", "<", "/", "s", ">", "/", "s", ">", "\"", "}">>}
      afters ==
        {<<>>, <<"<", "/", "s", ">">>, <<"\n", "E", "x", "t", "r", "a">>,
         <<" ", "{", "\"", "a", "\"", ":", "1", "}">>}
      parts ==
        {[kind |-> "file", path |-> <<"a", ".", "p", "y">>, ranges |-> <<<<10, 60>>, <<150, 210>>>>,
          text |-> <<"<", "f", "i", "l", "e", " ", "p", "a", "t", "h", "=", "\"", "/", "c", "o", "d", "e", "b", "a", "s", "e", "/", "a", ".", "p", "y", "\"", ">", "<", "r", "a", "n", "g", "e", ">", "1", "0", "-", "6", "0", "<", "/", "r", "a", "n", "g", "e", ">", "<", "r", "a", "n", "g", "e", ">", "1", "5", "0", "-", "2", "1", "0", "<", "/", "r", "a", "n", "g", "e", ">", "<", "/", "f", "i", "l", "e", ">">>],
         [kind |-> "file", path |-> <<"b">>, ranges |-> <<>>,
          text |-> <<"<", "f", "i", "l", "e", " ", "\n", " ", "p", "a", "t", "h", "=", "\"", "/", "c", "o", "d", "e", "b", "a", "s", "e", "/", "b", "\"", ">", "<", "/", "f", "i", "l", "e", ">">>],
         [kind |-> "file", path |-> <<>>, ranges |-> <<<<2, 1>>>>,
          text |-> <<"<", "f", "i", "l", "e", " ", "p", "a", "t", "h", "=", "\"", "/", "c", "o", "d", "e", "b", "a", "s", "e", "\"", ">", " ", "<", "r", "a", "n", "g", "e", ">", "5", "-", "<", "/", "r", "a", "n", "g", "e", ">", "x", "<", "r", "a", "n", "g", "e", ">", "2", "-", "1", "<", "/", "r", "a", "n", "g", "e", ">", "\n", "<", "/", "f", "i", "l", "e", ">">>],
         [kind |-> "file", path |-> <<"c", "/", "d">>, ranges |-> <<<<1, 2>>>>,
          text |-> <<"<", "f", "i", "l", "e", " ", "p", "a", "t", "h", "=", "\"", "c", "/", "d", "\"", ">", "<", "r", "a", "n", "g", "e", ">", "0", "1", "-", "2", "<", "/", "r", "a", "n", "g", "e", ">", "<", "r", "a", "n", "g", "e", ">", "a", "-", "3", "<", "/", "r", "a", "n", "g", "e", ">", "<", "/", "f", "i", "l", "e", ">">>],
         [kind |-> "broken", path |-> <<>>, ranges |-> <<>>,
          text |-> <<"<", "f", "i", "l", "e", " ", "p", "a", "t", "h", "=", "\"", "/", "c", "o", "d", "e", "b", "a", "s", "e", "/", "e", "\"", ">", "<", "r", "a", "n", "g", "e", ">", "1", "-", "2", "<", "/", "r", "a", "n", "g", "e", ">">>],
         [kind |-> "broken", path |-> <<>>, ranges |-> <<>>,
          text |-> <<"<", "f", "i", "l", "e", ">", "<", "r", "a", "n", "g", "e", ">", "1", "-", "2", "<", "/", "r", "a", "n", "g", "e", ">", "<", "/", "f", "i", "l", "e", ">">>],
         [kind |-> "broken", path |-> <<>>, ranges |-> <<>>,
          text |-> <<"<", "f", "i", "l", "e", " ", "p", "a", "t", "h", "=", "'", "/", "c", "o", "d", "e", "b", "a", "s", "e", "/", "e", "'", ">", "<", "r", "a", "n", "g", "e", ">", "1", "-", "2", "<", "/", "r", "a", "n", "g", "e", ">", "<", "/", "f", "i", "l", "e", ">">>],
         [kind |-> "broken", path |-> <<>>, ranges |-> <<>>,
          text |-> <<"<", "f", "i", "l", "e", " ", "p", "a", "t", "h", "=", "\"", "\"", ">", "<", "r", "a", "n", "g", "e", ">", "1", "-", "2", "<", "/", "r", "a", "n", "g", "e", ">", "<", "/", "f", "i", "l", "e", ">">>],
         [kind |-> "broken", path |-> <<>>, ranges |-> <<>>,
          text |-> <<"<", "r", "a", "n", "g", "e", ">", "1", "-", "2", "<", "/", "r", "a", "n", "g", "e", ">">>],
         [kind |-> "text", path |-> <<>>, ranges |-> <<>>,
          text |-> <<" ", "\n">>],
         [kind |-> "text", path |-> <<>>, ranges |-> <<>>,
          text |-> <<"s", "e", "e", " ", "\"", "x", "\"", " ">>]}
      RECURSIVE render(_)
      render(ps) == IF ps = <<>> THEN <<>> ELSE ps[1].text \o render(Tail(ps))
      answer(ps, wrapped) ==
        IF wrapped THEN <<"<", "A", "N", "S", "W", "E", "R", ">">> \o render(ps) \o <<"<", "/", "A", "N", "S", "W", "E", "R", ">">>
        ELSE render(ps)
      responses ==
        {[kind |-> "error", flags |-> 0, call |-> FALSE,
          expect |-> <<"[", "E", "r", "r", "o", "r", "]", " ", "a", "1", ":", " ", "b">>,
          body |-> <<123, 34, 101, 114, 114, 111, 114, 34, 58, 123, 34, 99, 111, 100, 101, 34, 58, 34, 97, 49, 34, 44, 34, 109, 101, 115, 115, 97, 103, 101, 34, 58, 34, 98, 34, 125, 125>>],
         [kind |-> "error", flags |-> 1, call |-> FALSE,
          expect |-> <<"[", "E", "r", "r", "o", "r", "]", " ", "a", "1", ":", " ", "b">>,
          body |-> Gzip(<<123, 34, 101, 114, 114, 111, 114, 34, 58, 123, 34, 99, 111, 100, 101, 34, 58, 34, 97, 49, 34, 44, 34, 109, 101, 115, 115, 97, 103, 101, 34, 58, 34, 98, 34, 125, 125>>)],
         [kind |-> "error", flags |-> 0, call |-> FALSE,
          expect |-> <<"[", "E", "r", "r", "o", "r", "]", " ", "u", "n", "k", "n", "o", "w", "n", ":", " ">>,
          body |-> <<123, 34, 101, 114, 114, 111, 114, 34, 58, 34, 120, 34, 125>>],
         [kind |-> "error", flags |-> 0, call |-> FALSE,
          expect |-> <<"[", "E", "r", "r", "o", "r", "]", " ", "u", "n", "k", "n", "o", "w", "n", ":", " ">>,
          body |-> <<123, 34, 101, 114, 114, 111, 114, 34, 58, 34, 34, 125>>],
         [kind |-> "other", flags |-> 0, call |-> FALSE,
          expect |-> <<>>,
          body |-> <<123, 34, 107, 34, 58, 34, 97, 34, 125>>],
         [kind |-> "marker", flags |-> 0, call |-> TRUE,
          expect |-> <<"t", "h">>,
          body |-> <<32, 116, 104, 32, 91, 84, 79, 79, 76, 95, 67, 65, 76, 76, 83, 93, 114, 103, 91, 65, 82, 71, 83, 93, 123, 34, 107, 34, 58, 34, 97, 34, 125>>],
         [kind |-> "marker", flags |-> 0, call |-> FALSE,
          expect |-> <<"[", "T", "O", "O", "L", "_", "C", "A", "L", "L", "S", "]", "r", "g", "[", "A", "R", "G", "S", "]", "n", "o", "j", "s", "o", "n">>,
          body |-> <<91, 84, 79, 79, 76, 95, 67, 65, 76, 76, 83, 93, 114, 103, 91, 65, 82, 71, 83, 93, 110, 111, 106, 115, 111, 110>>],
         [kind |-> "other", flags |-> 0, call |-> FALSE,
          expect |-> <<>>,
          body |-> <<10, 12, 104, 101, 108, 108, 111, 32, 119, 111, 114, 108, 100, 33>>],
         [kind |-> "other", flags |-> 0, call |-> FALSE,
          expect |-> <<>>,
          body |-> <<10, 6, 115, 104, 111, 114, 116, 33>>],
         [kind |-> "other", flags |-> 0, call |-> FALSE,
          expect |-> <<>>,
          body |-> <<10, 250, 255, 255, 255, 15>>]}
      RECURSIVE wire(_)
      wire(fs) == IF fs = <<>> THEN <<>>
                  ELSE <<fs[1].flags, 0, 0, 0, Len(fs[1].body)>> \o fs[1].body \o wire(Tail(fs))
  IN CASE fn = "extractJsonLikeArgs" ->
            {[fn |-> fn, in |-> [text |-> t, fromIdx |-> k], done |-> FALSE,
              out |-> [found |-> FALSE, jsonLike |-> <<>>, unterminated |-> FALSE]] :
               t \in SeqsUpTo(chars, MaxText) \cup longer, k \in 0..1}
       [] fn = "_parseAnswer" ->
            {[fn |-> fn, in |-> [text |-> answer(ps, w), parts |-> ps], done |-> FALSE,
              out |-> [files |-> <<>>]] : ps \in SeqsUpTo(parts, MaxParts), w \in BOOLEAN}
       [] fn = "_parseResponse" ->
            {[fn |-> fn, in |-> [data |-> wire(fs), frames |-> fs], done |-> FALSE,
              out |-> [hangs |-> FALSE, text |-> <<>>, null |-> TRUE, name |-> <<>>,
                       arguments |-> ParseFailed.value]] :
               fs \in SeqsUpTo(responses, MaxFrames)}
       [] OTHER ->
            {[fn |-> fn,
              in |-> [text |-> b \o c.text \o a \o f, before |-> b, call |-> c.text,
                      marked |-> c.marked, args |-> a, after |-> f],
              done |-> FALSE,
              out |-> [null |-> TRUE, thinking |-> <<>>, name |-> <<>>,
                       arguments |-> ParseFailed.value]] :
               b \in befores, c \in calls, a \in arguments, f \in afters}

\* ------------------------------------------------------------------ state
VARIABLES
  env,                 \* process.env.NODE_TLS_REJECT_UNAUTHORIZED: "unset" (or empty),
                       \* "0", or "1" for any other non-empty value
  tlsFallbackApplied,  \* _tlsFallbackApplied
  net,                 \* per caller: the network call it awaits
  sess,                \* per caller: the search session it runs
  uuids,               \* number of randomUUID() call identifiers drawn
  app                  \* the call of an executor function made on its own

vars == <<env, tlsFallbackApplied, net, sess, uuids, app>>

\* ---------------------------------------------------------- network layer
\* what one fetch() does: it rejects (connection, TLS, timeout before the
\* headers), or resolves with a status; bodyOk says whether arrayBuffer()
\* then delivers the body
Reject == [kind |-> "reject", status |-> 0, bodyOk |-> FALSE]
Resolve(status, bodyOk) == [kind |-> "response", status |-> status, bodyOk |-> bodyOk]

\* the outcomes of a fetch in the explored runs
AttemptOutcomes ==
  {Reject, Resolve(200, TRUE), Resolve(200, FALSE), Resolve(429, TRUE), Resolve(500, TRUE)}

\* resp.ok
RespOk(status) == status >= 200 /\ status <= 299

\* certificate verification is off while the variable is "0"
Relaxed(e) == e = "0"

Pending == [state |-> "pending", status |-> 0]
Bytes == [state |-> "bytes", status |-> 0]
Throw(status) == [state |-> "throw", status |-> status]

IdleCall == [stage |-> "idle", kind |-> "none", url |-> "none", attempts |-> <<>>, ret |-> Pending]

\* the call up to its first await: doFetch() is issued
NewCall(kind, url) ==
  [stage |-> "attempt1", kind |-> kind, url |-> url, attempts |-> <<>>, ret |-> Pending]

\* _applyTlsFallback without its guard: the variable is overwritten every time
ApplyTlsFallbackEnvUnguarded(applied, e) == "0"

\* _applyTlsFallback: the new value of the environment variable
ApplyTlsFallbackEnv(applied, e) ==
  IF ~applied /\ e = "unset" THEN "0" ELSE e

\* _applyTlsFallback: the new value of _tlsFallbackApplied
ApplyTlsFallbackFlag(applied, e) ==
  IF ~applied /\ e = "unset" THEN TRUE ELSE applied

\* the error of a non-2xx response without its status member
AfterResponseNoStatus(o) ==
  IF ~RespOk(o.status) THEN Throw(0)
  ELSE IF ~o.bodyOk THEN Throw(0)
  ELSE Bytes

\* after a resolved fetch: throw on !resp.ok, else read the body
AfterResponse(o) ==
  IF ~RespOk(o.status) THEN Throw(o.status)
  ELSE IF ~o.bodyOk THEN Throw(0)
  ELSE Bytes

\* the first doFetch() of _unaryRequest / _streamingRequest settles
FirstAttempt(c) ==
  /\ net[c].stage = "attempt1"
  /\ \E o \in AttemptOutcomes :
       LET rec == [relaxed |-> Relaxed(env), outcome |-> o]
       IN IF o.kind = "reject"
          THEN /\ env' = ApplyTlsFallbackEnv(tlsFallbackApplied, env)
               /\ tlsFallbackApplied' = ApplyTlsFallbackFlag(tlsFallbackApplied, env)
               /\ net' = [net EXCEPT ![c] = [@ EXCEPT !.stage = "attempt2",
                                                      !.attempts = <<rec>>]]
          ELSE /\ net' = [net EXCEPT ![c] = [@ EXCEPT !.stage = "settled",
                                                      !.attempts = <<rec>>,
                                                      !.ret = AfterResponse(o)]]
               /\ UNCHANGED <<env, tlsFallbackApplied, app>>
  /\ UNCHANGED <<sess, uuids, app>>

\* the doFetch() of the catch block settles
RetryAttempt(c) ==
  /\ net[c].stage = "attempt2"
  /\ \E o \in AttemptOutcomes :
       LET rec == [relaxed |-> Relaxed(env), outcome |-> o]
       IN net' = [net EXCEPT ![c] = [@ EXCEPT !.stage = "settled",
                                              !.attempts = Append(@, rec),
                                              !.ret = IF o.kind = "reject" THEN Throw(0)
                                                      ELSE AfterResponse(o)]]
  /\ UNCHANGED <<env, tlsFallbackApplied, sess, uuids, app>>

\* a caller issues a unary or a streaming request
StartRequest(c) ==
  /\ net[c].stage \in {"idle", "settled"}
  /\ \E k \in {"unary", "streaming"} :
       net' = [net EXCEPT ![c] = NewCall(k, IF k = "unary" THEN "CheckUserMessageRateLimit"
                                            ELSE "GetDevstralStream")]
  /\ UNCHANGED <<env, tlsFallbackApplied, sess, uuids, app>>

\* --------------------------------------------------------- search session
\* a conversation message as _buildRequest reads it (0: no call identifier)
Message(role, content, callId, toolName, argsJson, results, refCallId) ==
  [role |-> role, content |-> content, tool_call_id |-> callId, tool_name |-> toolName,
   tool_args_json |-> argsJson, results |-> results, ref_call_id |-> refCallId]

\* the tool_args_json of a message pushed without one
NoJson == [undefined |-> TRUE]

SystemMessage == Message(ROLE_SYSTEM, "systemPrompt", 0, U, NoJson, <<>>, 0)
UserMessage == Message(ROLE_USER, "userContent", 0, U, NoJson, <<>>, 0)
\* JSON.stringify(toolArgs): the text of the tree, its entries in insertion order
JsonStringify(args) == [json |-> args]

AssistantMessage(thinking, callId, args) ==
  Message(ROLE_ASSISTANT, thinking, callId, "restricted_exec", JsonStringify(args), <<>>, 0)
\* a tool-result message that carries no back-reference
ToolResultMessageNoRef(parts, callId) == Message(ROLE_TOOL, "results", 0, U, NoJson, parts, 0)

ToolResultMessage(parts, callId) == Message(ROLE_TOOL, "results", 0, U, NoJson, parts, callId)
ForceAnswerMessage == Message(ROLE_USER, FINAL_FORCE_ANSWER, 0, U, NoJson, <<>>, 0)

\* one field a ProtobufEncoder wrote: its number and its value
Field(no, val) == [no |-> no, val |-> val]

\* _buildChatMessage: role, content (the result blocks of a tool-result
\* message), the tool call when its three parts are truthy, the back-reference
BuildChatMessage(m) ==
  <<Field(2, m.role), Field(3, <<m.content, m.results>>)>>
    \o (IF m.tool_call_id # 0 /\ m.tool_name # U /\ m.tool_args_json # NoJson
        THEN <<Field(6, <<Field(1, m.tool_call_id), Field(2, m.tool_name),
                          Field(3, m.tool_args_json)>>)>>
        ELSE <<>>)
    \o (IF m.ref_call_id # 0 THEN <<Field(7, m.ref_call_id)>> ELSE <<>>)

\* a request that writes the messages last to first
BuildRequestReversed(messages) ==
  <<Field(1, "metadata")>>
    \o [i \in 1..Len(messages) |-> Field(2, BuildChatMessage(messages[Len(messages) + 1 - i]))]
    \o <<Field(3, "toolDefs")>>

\* _buildRequest: the metadata, one field 2 per message of the log, the tool definitions
BuildRequest(messages) ==
  <<Field(1, "metadata")>>
    \o [i \in 1..Len(messages) |-> Field(2, BuildChatMessage(messages[i]))]
    \o <<Field(3, "toolDefs")>>

\* a value search returns: the keys the object has, and their values
Result(keys, files, error, raw, patterns) ==
  [keys |-> keys, files |-> files, error |-> error, raw_response |-> raw, rg_patterns |-> patterns]

NoResult == Result({}, <<>>, U, U, <<>>)
RateLimitedResult == Result({"files", "error"}, <<>>, RATE_LIMITED, U, <<>>)
RequestFailedResult == Result({"files", "error"}, <<>>, REQUEST_FAILED, U, <<>>)
RemoteErrorResult(text) == Result({"files", "error"}, <<>>, text, U, <<>>)
\* a raw-text return that also reports the text as its error
RawResultWithError(text) == Result({"files", "error", "raw_response"}, <<>>, text, text, <<>>)
RawResult(text) == Result({"files", "raw_response"}, <<>>, U, text, <<>>)
AnswerResult(files, collected) ==
  Result({"files", "rg_patterns", "_meta"}, files, U, U, Dedup(collected))
ExhaustedResult(collected) ==
  Result({"files", "error", "rg_patterns", "_meta"}, <<>>, MAX_TURNS_REACHED, U, Dedup(collected))

\* the session before search is called; the variables below the line record
\* what the run did
IdleSession ==
  [pc |-> "idle", maxTurns |-> 0, turn |-> 0, messages |-> <<>>,
   collectedRgPatterns |-> <<>>, result |-> NoResult,
   sent |-> <<>>, protos |-> <<>>, execCount |-> 0, repoMap |-> FALSE, probe |-> "none",
   failedSetup |-> FALSE, responses |-> <<>>]

\* getApiKey: the environment variable, else the discovered key, else it throws
GetApiKey(envKey, discovered) ==
  IF envKey THEN "key" ELSE IF discovered THEN "key" ELSE "throw"

\* the injection one turn late: turn >= maxTurns
InjectsForceAnswerLate(turn, maxTurns) == turn >= maxTurns

\* turn >= maxTurns - 1: the force-answer message is injected
InjectsForceAnswer(turn, maxTurns) == turn >= maxTurns - 1

\* search is called: credentials, then the first unary call is issued
SearchStart(s) ==
  /\ sess[s].pc = "idle"
  /\ \E mt \in 0..MaxTurnsBound, apiKeyGiven \in BOOLEAN, envKey \in BOOLEAN,
        discovered \in BOOLEAN, jwtGiven \in BOOLEAN :
       LET key == IF apiKeyGiven THEN "key" ELSE GetApiKey(envKey, discovered)
           ss == [sess[s] EXCEPT !.maxTurns = mt,
                                 !.failedSetup = ~apiKeyGiven /\ ~envKey /\ ~discovered]
       IN IF key = "throw"
          THEN /\ sess' = [sess EXCEPT ![s] = [ss EXCEPT !.pc = "raised"]]
               /\ UNCHANGED net
          ELSE IF ~jwtGiven
          THEN /\ sess' = [sess EXCEPT ![s] = [ss EXCEPT !.pc = "jwt"]]
               /\ net' = [net EXCEPT ![s] = NewCall("unary", "GetUserJwt")]
          ELSE /\ sess' = [sess EXCEPT ![s] = [ss EXCEPT !.pc = "rate"]]
               /\ net' = [net EXCEPT ![s] = NewCall("unary", "CheckUserMessageRateLimit")]
  /\ UNCHANGED <<env, tlsFallbackApplied, uuids, app>>

\* fetchJwt without its final throw: a response without a token yields a jwt
FetchJwtNoThrow(ret, tokenFound) ==
  IF ret.state = "throw" THEN "throw" ELSE "jwt"

\* fetchJwt after its unary call: the first token candidate of the response,
\* or it throws (tokenFound: some extracted string starts with "eyJ" and has a ".")
FetchJwt(ret, tokenFound) ==
  IF ret.state = "throw" THEN "throw"
  ELSE IF tokenFound THEN "jwt" ELSE "throw"

\* search after fetchJwt: the exception propagates, or the rate probe is issued
FetchJwtDone(s) ==
  /\ sess[s].pc = "jwt"
  /\ net[s].stage = "settled"
  /\ \E tokenFound \in BOOLEAN :
       LET ss == [sess[s] EXCEPT !.failedSetup = net[s].ret.state = "throw" \/ ~tokenFound]
       IN IF FetchJwt(net[s].ret, tokenFound) = "throw"
          THEN /\ sess' = [sess EXCEPT ![s] = [ss EXCEPT !.pc = "raised"]]
               /\ UNCHANGED net
          ELSE /\ sess' = [sess EXCEPT ![s] = [ss EXCEPT !.pc = "rate"]]
               /\ net' = [net EXCEPT ![s] = NewCall("unary", "CheckUserMessageRateLimit")]
  /\ UNCHANGED <<env, tlsFallbackApplied, uuids, app>>

\* a rate check that blocks on every failure of the probe
CheckRateLimitFailClosed(ret) == ret.state # "throw"

\* checkRateLimit that fails open on every error, status 429 included
CheckRateLimitFailOpen(ret) == TRUE

\* checkRateLimit after its unary call: false only on status 429
CheckRateLimit(ret) == ~(ret.state = "throw" /\ ret.status = RateLimitStatus)

\* the status the probe ended with, as the run's record
ProbeRecord(ret) ==
  IF ret.state = "bytes" THEN "ok"
  ELSE IF ret.status = 429 THEN "429"
  ELSE IF ret.status = 0 THEN "transport" ELSE "http"

\* the head of the loop body: _buildRequest and _streamingRequest up to the fetch
SendTurn(ss) ==
  [ss EXCEPT !.pc = "turn", !.sent = Append(@, ss.messages),
             !.protos = Append(@, BuildRequest(ss.messages))]

\* search after the rate check: return, or set up and send turn 0
CheckRateLimitDone(s) ==
  /\ sess[s].pc = "rate"
  /\ net[s].stage = "settled"
  /\ LET ss == [sess[s] EXCEPT !.probe = ProbeRecord(net[s].ret)]
     IN IF ~CheckRateLimit(net[s].ret)
        THEN /\ sess' = [sess EXCEPT ![s] = [ss EXCEPT !.pc = "done",
                                                       !.result = RateLimitedResult]]
             /\ UNCHANGED net
        ELSE /\ sess' = [sess EXCEPT ![s] =
                  SendTurn([ss EXCEPT !.repoMap = TRUE, !.turn = 0,
                                      !.messages = <<SystemMessage, UserMessage>>])]
             /\ net' = [net EXCEPT ![s] = NewCall("streaming", "GetDevstralStream")]
  /\ UNCHANGED <<env, tlsFallbackApplied, uuids, app>>

\* the end of the loop body: turn++, then the next request or the final return
NextTurn(ss) ==
  LET t == ss.turn + 1
  IN IF t < ss.maxTurns + 1
     THEN SendTurn([ss EXCEPT !.turn = t])
     ELSE [ss EXCEPT !.turn = t, !.pc = "done",
                     !.result = ExhaustedResult(ss.collectedRgPatterns)]

\* a restricted_exec branch whose executor is one object of the process: the
\* patterns of every session are collected in the same array
RestrictedExecSharedExecutor(ss, r, callId) ==
  LET x == ExecToolCall(r.args)
      arrays == {sess[c].collectedRgPatterns : c \in Callers}
      shared == CHOOSE p \in arrays : \A q \in arrays : Len(q) <= Len(p)
      ran == [ss EXCEPT !.collectedRgPatterns = shared \o x.pushed,
                        !.execCount = @ + x.execs]
  IN IF x.raised
     THEN [ran EXCEPT !.pc = "raised"]
     ELSE NextTurn([ran EXCEPT !.messages =
            @ \o <<AssistantMessage(r.text, callId, r.args), ToolResultMessage(x.parts, callId)>>
              \o (IF InjectsForceAnswer(ss.turn, ss.maxTurns)
                  THEN <<ForceAnswerMessage>> ELSE <<>>)])

\* a restricted_exec branch that sends the next request before it appends the results
RestrictedExecSendsFirst(ss, r, callId) ==
  LET x == ExecToolCall(r.args)
      ran == [ss EXCEPT !.collectedRgPatterns = @ \o x.pushed,
                        !.execCount = @ + x.execs]
  IN IF x.raised
     THEN [ran EXCEPT !.pc = "raised"]
     ELSE [NextTurn(ran) EXCEPT !.messages =
            @ \o <<AssistantMessage(r.text, callId, r.args), ToolResultMessage(x.parts, callId)>>
              \o (IF InjectsForceAnswer(ss.turn, ss.maxTurns)
                  THEN <<ForceAnswerMessage>> ELSE <<>>)]

\* the restricted_exec branch: execToolCall, then the appended messages
RestrictedExec(ss, r, callId) ==
  LET x == ExecToolCall(r.args)
      ran == [ss EXCEPT !.collectedRgPatterns = @ \o x.pushed,
                        !.execCount = @ + x.execs]
  IN IF x.raised
     THEN [ran EXCEPT !.pc = "raised"]
     ELSE NextTurn([ran EXCEPT !.messages =
            @ \o <<AssistantMessage(r.text, callId, r.args), ToolResultMessage(x.parts, callId)>>
              \o (IF InjectsForceAnswer(ss.turn, ss.maxTurns)
                  THEN <<ForceAnswerMessage>> ELSE <<>>)])

\* a loop body that goes on to the next turn when the response holds no tool call
HandleResponseNoToolContinues(ss, r, callId) ==
  IF r.tool = "none"
  THEN NextTurn(ss)
  ELSE IF r.tool = "answer"
  THEN [ss EXCEPT !.pc = "done",
                  !.result = AnswerResult(ParseAnswer(AnswerXml(r.args)), ss.collectedRgPatterns)]
  ELSE IF r.tool = "restricted_exec"
  THEN RestrictedExec(ss, r, callId)
  ELSE NextTurn(ss)

\* the loop body without the return of the answer branch: the loop goes on
HandleResponseAnswerFallsThrough(ss, r, callId) ==
  IF r.tool = "none"
  THEN IF StartsWithErrorMarker(r.text)
       THEN [ss EXCEPT !.pc = "done", !.result = RemoteErrorResult(r.text)]
       ELSE [ss EXCEPT !.pc = "done", !.result = RawResult(r.text)]
  ELSE IF r.tool = "restricted_exec"
  THEN RestrictedExec(ss, r, callId)
  ELSE NextTurn(ss)

\* the loop body after _parseResponse returned r
HandleResponse(ss, r, callId) ==
  IF r.tool = "none"
  THEN IF StartsWithErrorMarker(r.text)
       THEN [ss EXCEPT !.pc = "done", !.result = RemoteErrorResult(r.text)]
       ELSE [ss EXCEPT !.pc = "done", !.result = RawResult(r.text)]
  ELSE IF r.tool = "answer"
  THEN [ss EXCEPT !.pc = "done",
                  !.result = AnswerResult(ParseAnswer(AnswerXml(r.args)), ss.collectedRgPatterns)]
  ELSE IF r.tool = "restricted_exec"
  THEN RestrictedExec(ss, r, callId)
  ELSE NextTurn(ss)

\* one turn of search from the settled streaming request to the next await.
\* _parseResponse returns one of Responses, or it does not return: on a frame
\* that makes extractStrings run for ever the session stays in the call
TurnDone(s) ==
  /\ sess[s].pc = "turn"
  /\ net[s].stage = "settled"
  /\ IF net[s].ret.state = "throw"
     THEN /\ sess' = [sess EXCEPT ![s] = [@ EXCEPT !.pc = "done",
                                                   !.result = RequestFailedResult]]
          /\ UNCHANGED <<net, uuids>>
     ELSE \/ /\ sess' = [sess EXCEPT ![s] = [@ EXCEPT !.pc = "hung",
                                                      !.responses = Append(@, "hang")]]
             /\ UNCHANGED <<net, uuids>>
          \/ \E r \in Responses :
               LET ss == HandleResponse([sess[s] EXCEPT !.responses = Append(@, r.tool)],
                                        r, uuids + 1)
               IN /\ sess' = [sess EXCEPT ![s] = ss]
                  /\ uuids' = IF r.tool = "restricted_exec" THEN uuids + 1 ELSE uuids
                  /\ net' = IF ss.pc = "turn"
                            THEN [net EXCEPT ![s] = NewCall("streaming", "GetDevstralStream")]
                            ELSE net
  /\ UNCHANGED <<env, tlsFallbackApplied, app>>

\* ------------------------------------------------------- specifications
Init ==
  /\ env \in {"unset", "0", "1"}
  /\ tlsFallbackApplied = FALSE
  /\ net = [c \in Callers |-> IdleCall]
  /\ sess = [c \in Callers |-> IdleSession]
  /\ uuids = 0
  /\ app = NoApp

Next ==
  \E s \in Sessions :
    \/ SearchStart(s)
    \/ FirstAttempt(s)
    \/ RetryAttempt(s)
    \/ FetchJwtDone(s)
    \/ CheckRateLimitDone(s)
    \/ TurnDone(s)

Spec == Init /\ [][Next]_vars

\* one search session whose steps are taken: every fetch of the network
\* layer resolves or rejects in the end, and the event loop runs the
\* continuation of an await once it has settled
LiveSpec == Spec /\ WF_vars(Next)

\* two search sessions of one process, their steps interleaved at the awaits.
\* The inputs are small and differ per session: maxTurns is 1, key and token
\* are given, the model answers with one <file> element or asks for the
\* session's own commands (session 1 searches "a" twice, session 2 searches
\* "b" and reads a file), and every fetch settles as in AttemptOutcomes
PairNext ==
  \E s \in 1..2 :
    LET tree == IF s = 1
                THEN <<Entry("command1", JCmd("rg", "a", VPath, U)),
                       Entry("command2", JCmd("rg", "a", VPath, U))>>
                ELSE <<Entry("command2", JCmd("rg", "b", VPath, U)),
                       Entry("command1", JCmd("readfile", U, U, VPath))>>
        asked(ss) ==
          /\ Len(ss.messages) > Len(sess[s].messages)
          /\ \A i \in 1..Len(ss.messages) :
               ss.messages[i].role = ROLE_ASSISTANT
                 => ss.messages[i].tool_args_json = JsonStringify(tree)
        small(ss) ==
          \/ ss.responses = sess[s].responses
          \/ ss.responses[Len(ss.responses)] = "restricted_exec" /\ asked(ss)
          \/ ss.responses[Len(ss.responses)] = "answer" /\ ss.result.files # <<>>
    IN \/ SearchStart(s) /\ sess'[s].maxTurns = 1 /\ sess'[s].pc = "rate"
       \/ FirstAttempt(s)
       \/ RetryAttempt(s)
       \/ CheckRateLimitDone(s)
       \/ TurnDone(s) /\ small(sess'[s])

PairSpec == Init /\ [][PairNext]_vars

NetNext ==
  \E c \in Callers :
    \/ StartRequest(c)
    \/ FirstAttempt(c)
    \/ RetryAttempt(c)

NetSpec == Init /\ [][NetNext]_vars

\* the executor on its own: one call of execToolCall, execCommand or _truncate
\* on an input drawn from the bounded sets
ToolInit ==
  /\ env = "unset"
  /\ tlsFallbackApplied = FALSE
  /\ net = [c \in Callers |-> IdleCall]
  /\ sess = [c \in Callers |-> IdleSession]
  /\ uuids = 0
  /\ app \in ToolApps

\* search calls executor.execToolCall(toolArgs): opts.maxCommands is not passed
ApplyExecToolCall ==
  /\ app.fn = "execToolCall"
  /\ ~app.done
  /\ app' = [app EXCEPT !.done = TRUE, !.out = ExecToolCall(app.in.args)]
  /\ UNCHANGED <<env, tlsFallbackApplied, net, sess, uuids>>

\* execCommand on one command: the path it operates on and the text it returns
ApplyExecCommand ==
  /\ app.fn = "execCommand"
  /\ ~app.done
  /\ LET c == app.in
     IN app' = [app EXCEPT !.done = TRUE,
                           !.out = [real |-> Real(c.path),
                                    text |-> ExecCommandText(c.type, c.outcome, c.text,
                                                             c.start, c.end)]]
  /\ UNCHANGED <<env, tlsFallbackApplied, net, sess, uuids>>

\* _truncate on one text
ApplyTruncate ==
  /\ app.fn = "_truncate"
  /\ ~app.done
  /\ app' = [app EXCEPT !.done = TRUE, !.out = Truncate(app.in)]
  /\ UNCHANGED <<env, tlsFallbackApplied, net, sess, uuids>>

ToolNext ==
  \/ ApplyExecToolCall
  \/ ApplyExecCommand
  \/ ApplyTruncate

ToolSpec == ToolInit /\ [][ToolNext]_vars

\* the codec functions, each applied to one input
CodecInit ==
  /\ env = "unset"
  /\ tlsFallbackApplied = FALSE
  /\ net = [c \in Callers |-> IdleCall]
  /\ sess = [c \in Callers |-> IdleSession]
  /\ uuids = 0
  /\ \E fn \in CodecFunctions : app \in CodecApps(fn)

\* ProtobufEncoder._varint on one number
ApplyVarint ==
  /\ app.fn = "_varint"
  /\ ~app.done
  /\ app' = [app EXCEPT !.done = TRUE, !.out = [bytes |-> Varint(app.in.value)]]
  /\ UNCHANGED <<env, tlsFallbackApplied, net, sess, uuids>>

\* decodeVarint on the encoder's bytes, from offset 0
ApplyDecodeVarint ==
  /\ app.fn = "_varint"
  /\ app.done
  /\ LET d == DecodeVarint(app.out.bytes, 0)
     IN app' = [app EXCEPT !.fn = "decodeVarint",
                           !.out = [bytes |-> app.out.bytes, value |-> d.value,
                                    offset |-> d.offset]]
  /\ UNCHANGED <<env, tlsFallbackApplied, net, sess, uuids>>

\* extractStrings: one iteration of while (i < data.length), or the return
ApplyExtractStrings ==
  /\ app.fn = "extractStrings"
  /\ ~app.done
  /\ IF app.out.i < Len(app.in.data) /\ ~app.out.stopped
     THEN app' = [app EXCEPT !.out = ExtractStep(app.in.data, app.out)]
     ELSE app' = [app EXCEPT !.done = TRUE]
  /\ UNCHANGED <<env, tlsFallbackApplied, net, sess, uuids>>

\* connectFrameEncode on each frame; the body arrives without its last bytes
ApplyConnectFrameEncode ==
  /\ app.fn = "connectFrameEncode"
  /\ LET RECURSIVE body(_)
         body(fs) == IF fs = <<>> THEN <<>>
                     ELSE ConnectFrameEncode(fs[1].payload, fs[1].compress) \o body(Tail(fs))
         all == body(app.in.frames)
         kept == IF Len(all) > app.in.cut THEN Len(all) - app.in.cut ELSE 0
     IN app' = [app EXCEPT !.fn = "connectFrameDecode",
                           !.out = [data |-> SubSeq(all, 1, kept)]]
  /\ UNCHANGED <<env, tlsFallbackApplied, net, sess, uuids>>

\* connectFrameDecode on a body
ApplyConnectFrameDecode ==
  /\ app.fn = "connectFrameDecode"
  /\ ~app.done
  /\ LET d == ConnectFrameDecode(app.out.data)
     IN app' = [app EXCEPT !.done = TRUE,
                           !.out = [data |-> app.out.data, raised |-> d.raised,
                                    frames |-> d.frames]]
  /\ UNCHANGED <<env, tlsFallbackApplied, net, sess, uuids>>

\* the write calls on a new ProtobufEncoder, then toBuffer
ApplyToBuffer ==
  /\ app.fn = "toBuffer"
  /\ ~app.done
  /\ app' = [app EXCEPT !.done = TRUE, !.out = [bytes |-> ToBuffer(app.in.calls)]]
  /\ UNCHANGED <<env, tlsFallbackApplied, net, sess, uuids>>

CodecNext ==
  \/ ApplyVarint
  \/ ApplyDecodeVarint
  \/ ApplyExtractStrings
  \/ ApplyConnectFrameEncode
  \/ ApplyConnectFrameDecode
  \/ ApplyToBuffer

CodecSpec == CodecInit /\ [][CodecNext]_vars

\* repairJson, applied to one text
RepairInit ==
  /\ env = "unset"
  /\ tlsFallbackApplied = FALSE
  /\ net = [c \in Callers |-> IdleCall]
  /\ sess = [c \in Callers |-> IdleSession]
  /\ uuids = 0
  /\ app \in RepairApps

\* repairJson: the next step of the ladder and the JSON.parse of its text;
\* the function returns when a text parses or the last step has failed
ApplyRepairJson ==
  /\ app.fn = "repairJson"
  /\ ~app.done
  /\ LET n == Len(app.out.texts) + 1
         s == RepairStep(n, IF n = 1 THEN app.in.text ELSE app.out.texts[n - 1])
         parsed == JsonParse(s)
     IN app' = [app EXCEPT !.done = parsed.ok \/ n = Len(RepairSteps),
                           !.out = [texts |-> Append(app.out.texts, s),
                                    ok |-> parsed.ok,
                                    value |-> parsed.value,
                                    step |-> IF parsed.ok THEN RepairSteps[n] ELSE "none"]]
  /\ UNCHANGED <<env, tlsFallbackApplied, net, sess, uuids>>

RepairNext == ApplyRepairJson

RepairSpec == RepairInit /\ [][RepairNext]_vars

\* the tool-call extractor, _parseAnswer and _parseResponse, each applied to
\* one input
ParseInit ==
  /\ env = "unset"
  /\ tlsFallbackApplied = FALSE
  /\ net = [c \in Callers |-> IdleCall]
  /\ sess = [c \in Callers |-> IdleSession]
  /\ uuids = 0
  /\ \E fn \in {"extractJsonLikeArgs", "parseToolCallRobust", "_parseAnswer", "_parseResponse"} :
       app \in ParseApps(fn)

\* extractJsonLikeArgs on one text and start index
ApplyExtractJsonLikeArgs ==
  /\ app.fn = "extractJsonLikeArgs"
  /\ ~app.done
  /\ app' = [app EXCEPT !.done = TRUE,
                        !.out = ExtractJsonLikeArgs(app.in.text, app.in.fromIdx)]
  /\ UNCHANGED <<env, tlsFallbackApplied, net, sess, uuids>>

\* parseToolCallRobust on one text
ApplyParseToolCallRobust ==
  /\ app.fn = "parseToolCallRobust"
  /\ ~app.done
  /\ app' = [app EXCEPT !.done = TRUE, !.out = ParseToolCallRobust(app.in.text)]
  /\ UNCHANGED <<env, tlsFallbackApplied, net, sess, uuids>>

\* _parseAnswer on one answer text
ApplyParseAnswer ==
  /\ app.fn = "_parseAnswer"
  /\ ~app.done
  /\ app' = [app EXCEPT !.done = TRUE, !.out = ParseAnswerText(app.in.text)]
  /\ UNCHANGED <<env, tlsFallbackApplied, net, sess, uuids>>

\* _parseResponse on one response body; a call that hangs never returns
ApplyParseResponse ==
  /\ app.fn = "_parseResponse"
  /\ ~app.done
  /\ LET returned(r) == [app EXCEPT !.done = ~r.hangs, !.out = r]
     IN app' = returned(ParseResponse(app.in.data))
  /\ app' # app
  /\ UNCHANGED <<env, tlsFallbackApplied, net, sess, uuids>>

ParseNext ==
  \/ ApplyExtractJsonLikeArgs
  \/ ApplyParseToolCallRobust
  \/ ApplyParseAnswer
  \/ ApplyParseResponse

ParseSpec == ParseInit /\ [][ParseNext]_vars

\* ------------------------------------------------------------------ claims
\* the positions of the force-answer message in a conversation log
ForceAnswerIndexes(ms) == {i \in 1..Len(ms) : ms[i] = ForceAnswerMessage}

Last(xs) == xs[Len(xs)]

\* C1: with maxTurns >= 1 the conversation log of a session never holds more
\* than one force-answer message, and the one it holds directly follows a
\* tool-result message and was appended in the boundary turn maxTurns - 1.
C1_ForceAnswerExactlyOnce ==
  \A s \in Sessions :
    sess[s].maxTurns >= 1 =>
      /\ Cardinality(ForceAnswerIndexes(sess[s].messages)) <= 1
      /\ \A i \in ForceAnswerIndexes(sess[s].messages) :
           /\ i > 1
           /\ sess[s].messages[i - 1].role = ROLE_TOOL
           /\ sess[s].turn >= sess[s].maxTurns

\* C2: when the rate-check probe ends with HTTP status 429, search returns
\* {files: [], error: rate-limited}, and the run sends no streaming request,
\* executes no sub-command and builds no repo map.
C2_RateLimitShortCircuits ==
  \A s \in Sessions :
    (\/ sess[s].probe = "429"
     \/ /\ net[s].url = "CheckUserMessageRateLimit"
        /\ net[s].ret = Throw(RateLimitStatus))
    => /\ sess[s].pc \in {"rate", "done"}
       /\ sess[s].pc = "done" => sess[s].result = RateLimitedResult
       /\ sess[s].sent = <<>>
       /\ sess[s].execCount = 0
       /\ ~sess[s].repoMap
       /\ net[s].url # "GetDevstralStream"

\* a session that returned the rate-limited result after a 429 that came on the
\* retry of the probe
C2_Witness ==
  \E s \in Sessions :
    /\ sess[s].pc = "done"
    /\ sess[s].probe = "429"
    /\ sess[s].result = RateLimitedResult
    /\ Len(net[s].attempts) = 2

\* C3: every result returned after the rate check (answer, raw response,
\* remote error, request failure, exhausted budget) carries the deduplicated
\* patterns passed to rg in the earlier turns of the session.
C3_PatternsOnEveryEnding ==
  \A s \in Sessions :
    (sess[s].pc = "done" /\ sess[s].repoMap) =>
      /\ "rg_patterns" \in sess[s].result.keys
      /\ sess[s].result.rg_patterns = Dedup(sess[s].collectedRgPatterns)

\* C4: a returned non-empty files list implies that the last response was an
\* answer call; once an answer call is received the session is over, no
\* request is in flight, and the step that received it executed no sub-command
\* and appended nothing to the log.
C4_AnswerIsTheOnlySuccess ==
  /\ [](\A s \in Sessions :
          /\ (sess[s].pc = "done" /\ sess[s].result.files # <<>>)
               => (sess[s].responses # <<>> /\ Last(sess[s].responses) = "answer")
          /\ (\E i \in 1..Len(sess[s].responses) : sess[s].responses[i] = "answer")
               => /\ sess[s].pc = "done"
                  /\ Last(sess[s].responses) = "answer"
                  /\ Len(sess[s].sent) = Len(sess[s].responses)
                  /\ net[s].stage = "settled"
                  /\ ~ENABLED Next)
  /\ [][\A s \in Sessions :
          (sess'[s].responses # sess[s].responses /\ Last(sess'[s].responses) = "answer")
            => /\ sess'[s].execCount = sess[s].execCount
               /\ sess'[s].collectedRgPatterns = sess[s].collectedRgPatterns
               /\ sess'[s].messages = sess[s].messages
               /\ sess'[s].sent = sess[s].sent]_vars

\* an answer received in a later turn, after sub-commands ran, returned files
C4_Witness ==
  \E s \in Sessions :
    /\ sess[s].pc = "done"
    /\ sess[s].result.files # <<>>
    /\ Len(sess[s].responses) >= 2
    /\ sess[s].execCount >= 1

\* C5: after the credentials and the session token were obtained search never
\* raises, whatever responses and argument trees arrive: a session that
\* raised failed during setup.
C5_NeverRaisesAfterSetup ==
  \A s \in Sessions : sess[s].pc = "raised" => sess[s].failedSetup

C7_TlsToggleOnce ==
  [][/\ tlsFallbackApplied => tlsFallbackApplied'
     /\ (env' # env \/ tlsFallbackApplied' # tlsFallbackApplied)
          => /\ ~tlsFallbackApplied /\ tlsFallbackApplied'
             /\ env = "unset" /\ env' = "0"
             /\ \E c \in Callers :
                  /\ net[c].stage = "attempt1"
                  /\ net'[c].stage = "attempt2"
                  /\ net'[c].attempts[1].outcome.kind = "reject"
                  /\ net'[c].attempts[1].outcome.status = 0]_vars

\* two interleaved requests both had their first attempt rejected, one before
\* and one after the fallback was applied
C7_Witness ==
  /\ tlsFallbackApplied
  /\ \E c, d \in Callers :
       /\ c # d
       /\ net[c].kind = "unary" /\ net[d].kind = "streaming"
       /\ Len(net[c].attempts) >= 1 /\ Len(net[d].attempts) >= 1
       /\ net[c].attempts[1].outcome.kind = "reject" /\ ~net[c].attempts[1].relaxed
       /\ net[d].attempts[1].outcome.kind = "reject" /\ net[d].attempts[1].relaxed

\* the shape of a network call's attempts: at most two, the second exactly
\* after a rejected first fetch, a resolved fetch never retried, the error of
\* a non-2xx response carrying its status, a rejected retry propagating
AttemptsWellFormed(c) ==
  LET a == net[c].attempts
  IN /\ Len(a) <= 2
     /\ net[c].stage \in {"idle", "attempt1"} => a = <<>>
     /\ net[c].stage = "attempt2" => (Len(a) = 1 /\ a[1].outcome.kind = "reject")
     /\ net[c].stage = "settled" =>
          /\ Len(a) >= 1
          /\ Len(a) = 2 <=> a[1].outcome.kind = "reject"
          /\ LET o == Last(a).outcome
             IN /\ o.kind = "reject" => net[c].ret = Throw(0)
                /\ (o.kind = "response" /\ ~RespOk(o.status)) => net[c].ret = Throw(o.status)
                /\ (o.kind = "response" /\ RespOk(o.status) /\ o.bodyOk) => net[c].ret = Bytes
                /\ (o.kind = "response" /\ RespOk(o.status) /\ ~o.bodyOk) => net[c].ret = Throw(0)

Roles(ms) == [i \in 1..Len(ms) |-> ms[i].role]

\* C9: with maxTurns = 1 and a first response that is a restricted_exec call,
\* the second streaming request carries [system, user, assistant, tool-result,
\* force-answer] with exactly one force-answer message, and from then on a
\* non-empty files list is returned only for an answer call.
C9_BoundaryTurnScenario ==
  \A s \in Sessions :
    (/\ sess[s].maxTurns = 1
     /\ Len(sess[s].sent) >= 2
     /\ sess[s].responses[1] = "restricted_exec")
    => /\ Roles(sess[s].sent[2])
            = <<ROLE_SYSTEM, ROLE_USER, ROLE_ASSISTANT, ROLE_TOOL, ROLE_USER>>
       /\ ForceAnswerIndexes(sess[s].sent[2]) = {5}
       /\ sess[s].sent[2][4].ref_call_id = sess[s].sent[2][3].tool_call_id
       /\ (sess[s].pc = "done" /\ sess[s].result.files # <<>>)
            => sess[s].responses[2] = "answer"

\* the second request of such a session was answered with files
C9_Witness ==
  \E s \in Sessions :
    /\ sess[s].maxTurns = 1
    /\ Len(sess[s].sent) = 2
    /\ sess[s].responses = <<"restricted_exec", "answer">>
    /\ sess[s].execCount >= 1
    /\ sess[s].result.files # <<>>

\* C10: when all maxTurns + 1 responses arrived and none of them is an answer
\* call or a response without a tool call, search returns the result with no
\* files, the max-turns error and the deduplicated collected patterns.
C10_ExhaustedReturns ==
  \A s \in Sessions :
    (/\ sess[s].maxTurns >= 1
     /\ Len(sess[s].responses) = sess[s].maxTurns + 1
     /\ \A i \in 1..Len(sess[s].responses) : sess[s].responses[i] \notin {"answer", "none"})
    => /\ sess[s].pc = "done"
       /\ sess[s].result = ExhaustedResult(sess[s].collectedRgPatterns)


\* the texts of the responses that hold no tool call
NoToolTexts == {r.text : r \in {x \in Responses : x.tool = "none"}}

\* the step in which session s parsed a response of the given kind
Parsed(s, tool) == sess'[s].responses = Append(sess[s].responses, tool)

\* C11: a response that yields no tool call ends the session in that turn,
\* with {files: [], error: text} when the text begins with "[Error]" and
\* {files: [], raw_response: text} otherwise; the step executes no tool,
\* appends nothing to the conversation log and sends no further request.
C11_NoToolCallEndsSession ==
  /\ [](\A s \in Sessions :
          (sess[s].responses # <<>> /\ Last(sess[s].responses) = "none") =>
            /\ sess[s].pc = "done"
            /\ \E t \in NoToolTexts :
                 sess[s].result = IF StartsWithErrorMarker(t)
                                  THEN RemoteErrorResult(t) ELSE RawResult(t))
  /\ [][\A s \in Sessions :
          Parsed(s, "none") =>
            /\ sess'[s].messages = sess[s].messages
            /\ sess'[s].execCount = sess[s].execCount
            /\ sess'[s].collectedRgPatterns = sess[s].collectedRgPatterns
            /\ sess'[s].sent = sess[s].sent
            /\ net'[s] = net[s]]_vars

\* a session ended by an "[Error]" text in its second turn, after a turn that
\* executed sub-commands
C11_Witness ==
  \E s \in Sessions :
    /\ sess[s].responses = <<"restricted_exec", "none">>
    /\ sess[s].result = RemoteErrorResult("[Error] unknown: boom")
    /\ sess[s].execCount > 0

\* the session state search reaches when the probe succeeded: turn 0 sent
\* with the initial log
ProceededToTurn0(ss) ==
  /\ ss.pc = "turn"
  /\ ss.turn = 0
  /\ ss.repoMap
  /\ ss.messages = <<SystemMessage, UserMessage>>
  /\ ss.sent = <<ss.messages>>
  /\ ss.responses = <<>>
  /\ ss.result = NoResult

\* C12: when the rate-check probe fails in a way other than HTTP 429 (no
\* response after the retry, or another HTTP error status), the step that
\* settles the check leaves the session where a successful probe leaves it:
\* turn 0 is sent with the initial log, and the streaming request is issued.
C12_ProbeFailsOpen ==
  [][\A s \in Sessions :
       (sess[s].pc = "rate" /\ sess'[s].pc # "rate"
          /\ sess'[s].probe \in {"ok", "transport", "http"}) =>
         /\ ProceededToTurn0(sess'[s])
         /\ [sess'[s] EXCEPT !.probe = "ok"] =
              SendTurn([sess[s] EXCEPT !.probe = "ok", !.repoMap = TRUE, !.turn = 0,
                                       !.messages = <<SystemMessage, UserMessage>>])
         /\ net'[s] = NewCall("streaming", "GetDevstralStream")]_vars

\* turn 0 in flight after a probe that ended with an HTTP error other than 429
C12_Witness ==
  \E s \in Sessions :
    /\ sess[s].probe = "http"
    /\ ProceededToTurn0(sess[s])
    /\ net[s].kind = "streaming"

\* the number of result blocks the tool-result messages of a log hold
RECURSIVE ResultBlocks(_)
ResultBlocks(ms) ==
  IF ms = <<>> THEN 0 ELSE Len(ms[1].results) + ResultBlocks(Tail(ms))

\* C13: the turns of a session are sequential. Every streaming request but
\* the last has been answered (or has failed, which ends the session), so at
\* most one is in flight; the request in flight is the one of the current
\* turn, it carries the whole log, and the log holds one result block for
\* every sub-command the session has executed.
C13_TurnsSequential ==
  \A s \in Sessions :
    LET ss == sess[s]
        unanswered == Len(ss.sent) - Len(ss.responses)
    IN /\ unanswered \in {0, 1}
       /\ ss.pc = "turn" =>
            /\ unanswered = 1
            /\ Len(ss.sent) = ss.turn + 1
            /\ net[s].kind = "streaming"
            /\ Last(ss.sent) = ss.messages
            /\ ResultBlocks(ss.messages) = ss.execCount
       /\ (ss.pc # "turn" /\ unanswered = 1) => ss.result = RequestFailedResult

\* the request of turn 1 in flight after a turn 0 that executed two sub-commands
C13_Witness ==
  \E s \in Sessions :
    /\ sess[s].pc = "turn"
    /\ sess[s].turn = 1
    /\ sess[s].execCount = 2
    /\ net[s].stage = "attempt1"

IsPrefix(xs, ys) == Len(xs) <= Len(ys) /\ SubSeq(ys, 1, Len(xs)) = xs

\* the messages a request encodes, in the order of their fields
EncodedMessages(proto) == [i \in 1..(Len(proto) - 2) |-> proto[i + 1].val]

\* C14: the conversation log is append-only. Of two consecutive streaming
\* requests of a session the messages the earlier encodes are a prefix of the
\* messages the later encodes, and every request is the metadata field, then
\* one field 2 per message in log order, then the tool-definition field.
C14_LogAppendOnly ==
  \A s \in Sessions :
    LET ss == sess[s]
    IN /\ Len(ss.protos) = Len(ss.sent)
       /\ \A k \in 1..Len(ss.protos) :
            LET proto == ss.protos[k]
                n == Len(ss.sent[k])
            IN /\ Len(proto) = n + 2
               /\ proto[1] = Field(1, "metadata")
               /\ proto[n + 2] = Field(3, "toolDefs")
               /\ \A i \in 1..n : proto[i + 1] = Field(2, BuildChatMessage(ss.sent[k][i]))
       /\ \A k \in 1..(Len(ss.protos) - 1) :
            /\ IsPrefix(ss.sent[k], ss.sent[k + 1])
            /\ IsPrefix(EncodedMessages(ss.protos[k]), EncodedMessages(ss.protos[k + 1]))

\* three requests sent, the log longer in each
C14_Witness ==
  \E s \in Sessions :
    /\ Len(sess[s].protos) = 3
    /\ Len(EncodedMessages(sess[s].protos[1])) < Len(EncodedMessages(sess[s].protos[2]))
    /\ Len(EncodedMessages(sess[s].protos[2])) < Len(EncodedMessages(sess[s].protos[3]))

\* the call identifiers the assistant messages of a log record
CallIds(ms) == {ms[i].tool_call_id : i \in {j \in 1..Len(ms) : ms[j].role = ROLE_ASSISTANT}}

Permuted(args, p) == [i \in 1..Len(args) |-> args[p[i]]]

\* the command keys of a tree whose values execToolCall executes, in sort order
ExecutedKeys(args) ==
  SelectSeq(SortedKeyUniverse,
            LAMBDA k : /\ k \in Range(ObjectKeys(args))
                       /\ StartsWithCommand(k)
                       /\ TypeofObject(Member(args, k)))

\* C16: the result of execToolCall is one block per executed sub-command,
\* each block tagged with the key of its command and holding that command's
\* output, in the sort order of the keys; listing the same entries in any
\* other order gives the identical result.
C16_StableBlockOrder ==
  (app.fn = "execToolCall" /\ app.done) =>
    LET args == app.in.args
        out == app.out
    IN /\ ~out.raised =>
            /\ Len(out.parts) = out.execs
            /\ [i \in 1..Len(out.parts) |-> out.parts[i].key] = ExecutedKeys(args)
            /\ \A i \in 1..Len(out.parts) :
                 out.parts[i].output = ExecCommand(Member(args, out.parts[i].key)).output
       /\ \A p \in Permutations(1..Len(args)) : ExecToolCall(Permuted(args, p)) = out

\* a tree that lists command2 before command1: the blocks come out as
\* command1, command2
C16_Witness ==
  /\ app.fn = "execToolCall"
  /\ app.done
  /\ ObjectKeys(app.in.args) = <<"command2", "command1">>
  /\ ~app.out.raised
  /\ [i \in 1..Len(app.out.parts) |-> app.out.parts[i].key] = <<"command1", "command2">>
  /\ app.out.parts[1].output # app.out.parts[2].output

\* C17: a call of execToolCall executes at most maxCommands sub-commands,
\* however many command keys the argument tree holds.
C17_AtMostMaxCommands ==
  (app.fn = "execToolCall" /\ app.done) => app.out.execs <= app.in.maxCommands

\* C18: for each of the five sub-command types and every path argument, the
\* filesystem location the executor operates on lies inside the project root.
C18_PathsInsideRoot ==
  (app.fn = "execCommand" /\ app.done /\ app.in.type \in FsCommandTypes) =>
    IsPrefix(Root, Normalize(app.out.real))

\* C19: every text execCommand returns, for every sub-command type and code
\* path, holds at most 50 content lines and no line longer than 250 characters.
C19_OutputWithinLimits ==
  (app.fn = "execCommand" /\ app.done) =>
    /\ Len(app.out.text.lines) <= RESULT_MAX_LINES
    /\ \A i \in 1..Len(app.out.text.lines) : app.out.text.lines[i].len <= LINE_MAX_CHARS

\* C20 as stated: _truncate appends the marker exactly when lines beyond the
\* 50th were dropped or a kept line was cut to 250 characters.
C20_MarkerOnEitherLimit ==
  (app.fn = "_truncate" /\ app.done) =>
    (app.out.marker <=>
       \/ Len(app.in) > RESULT_MAX_LINES
       \/ \E i \in 1..Min(Len(app.in), RESULT_MAX_LINES) : app.in[i].len > LINE_MAX_CHARS)

\* C20, amended: _truncate keeps the first 50 lines, each cut to its first
\* 250 characters, and appends the marker exactly when lines beyond the 50th
\* were dropped; cutting a line adds no marker.
C20_MarkerOnlyOnDroppedLines ==
  (app.fn = "_truncate" /\ app.done) =>
    /\ app.out.marker <=> Len(app.in) > RESULT_MAX_LINES
    /\ Len(app.out.lines) = Min(Len(app.in), RESULT_MAX_LINES)
    /\ \A i \in 1..Len(app.out.lines) :
         app.out.lines[i].len = Min(app.in[i].len, LINE_MAX_CHARS)

\* a text of at most 50 lines with a line of 251 characters: the line is cut
\* and no marker is appended
C20_Witness ==
  /\ app.fn = "_truncate"
  /\ app.done
  /\ Len(app.in) <= RESULT_MAX_LINES
  /\ \E i \in 1..Len(app.in) :
       /\ app.in[i].len = LINE_MAX_CHARS + 1
       /\ app.out.lines[i].len = LINE_MAX_CHARS
  /\ ~app.out.marker

\* the number an int32 bit pattern stands for: negative when bit 31 is set
Int32(pattern) == [neg |-> 31 \in pattern, bits |-> pattern]

\* the non-negative number with the given one bits
NonNeg(bits) == [neg |-> FALSE, bits |-> bits]

\* the position after the highest one bit: 0 for the number 0
BitLength(bits) == IF bits = {} THEN 0 ELSE 1 + CHOOSE p \in bits : \A q \in bits : q <= p

\* ceil(n / 7)
Groups(n) == (n + 6) \div 7

\* the k-th group of seven bits of a number, the lowest one first
Group(bits, k) == Low7({p - 7 * (k - 1) : p \in {q \in bits : q >= 7 * (k - 1)}})

\* C24: decodeVarint on the bytes _varint makes of a non-negative integer v
\* returns v and an offset just behind those bytes.
C24_VarintRoundTrip ==
  (app.fn = "decodeVarint") =>
     /\ Int32(app.out.value) = NonNeg(app.in.value)
     /\ app.out.offset = Len(app.out.bytes)

C21_ScanNeverMovesBackwards ==
  [][(app.fn = "extractStrings" /\ ~app.done) =>
       \/ app'.out.i > app.out.i
       \/ app'.out.i = app.out.i /\ (app'.done \/ app'.out.stopped)]_vars


\* the payloads of a list of frames
Payloads(fs) == [k \in 1..Len(fs) |-> fs[k].payload]

\* C22: decoding the concatenation of the encodings of n >= 1 payloads, each
\* compressed or not, gives the n payloads in order; for n = 1 it is [payload].
C22_FrameRoundTrip ==
  (app.fn = "connectFrameDecode" /\ app.done /\ app.in.frames # <<>> /\ app.in.cut = 0) =>
     /\ ~app.out.raised
     /\ app.out.frames = Payloads(app.in.frames)

\* two frames, the first compressed with an empty payload, are decoded
C22_Witness ==
  /\ app.fn = "connectFrameDecode"
  /\ app.done
  /\ app.in.cut = 0
  /\ Len(app.in.frames) = 2
  /\ app.in.frames[1] = [payload |-> <<>>, compress |-> TRUE]
  /\ app.in.frames[2] = [payload |-> <<31, 1, 0>>, compress |-> FALSE]
  /\ app.out.frames = <<<<>>, <<31, 1, 0>>>>

\* what the claim says a body of budget bytes of the frames fs decodes to:
\* whole frames give their payload, a header of fewer than 5 bytes is
\* ignored, and a payload that is short is taken as far as it goes
RECURSIVE TruncatedFrames(_, _)
TruncatedFrames(fs, budget) ==
  IF fs = <<>> THEN <<>>
  ELSE LET e == ConnectFrameEncode(fs[1].payload, fs[1].compress)
       IN IF budget >= Len(e)
          THEN <<fs[1].payload>> \o TruncatedFrames(Tail(fs), budget - Len(e))
          ELSE IF budget < 5 THEN <<>>
          ELSE <<SubSeq(e, 6, budget)>>

\* C23: connectFrameDecode never raises; fewer than 5 remaining bytes are
\* ignored; a body of frames that lost bytes at its end gives the payloads of
\* the whole frames in order and then the bytes that are left of the payload
\* of the cut frame.
C23_TruncatedBody ==
  (app.fn = "connectFrameDecode" /\ app.done) =>
     /\ ~app.out.raised
     /\ Len(app.out.data) < 5 => app.out.frames = <<>>
     /\ app.in.frames # <<>> =>
          app.out.frames = TruncatedFrames(app.in.frames, Len(app.out.data))

\* a body of two frames that lost the last byte of the second payload
C23_Witness ==
  /\ app.fn = "connectFrameDecode"
  /\ app.done
  /\ app.in.cut = 1
  /\ Len(app.in.frames) = 2
  /\ app.in.frames[1].compress
  /\ app.in.frames[2] = [payload |-> <<0, 1>>, compress |-> FALSE]
  /\ app.out.frames = <<app.in.frames[1].payload, <<0>>>>


\* a conforming varint reader at position pos of b: the groups of seven bits,
\* the k-th one first, with no limit on the width
RECURSIVE ReadVarint(_, _, _)
ReadVarint(b, pos, k) ==
  IF pos > Len(b) THEN [bits |-> {}, next |-> pos]
  ELSE LET g == {q + 7 * k : q \in NatBits(b[pos] % 128)}
           r == ReadVarint(b, pos + 1, k + 1)
       IN IF b[pos] >= 128 THEN [bits |-> g \cup r.bits, next |-> r.next]
          ELSE [bits |-> g, next |-> pos + 1]

\* a conforming decode of b against the fields the calls name: the calls it
\* recovers, a mismatch of the wire type or bytes left over being a call of
\* its own kind
RECURSIVE SchemaDecode(_, _)
SchemaDecode(b, schema) ==
  IF schema = <<>> THEN (IF b = <<>> THEN <<>> ELSE <<[op |-> "left over"]>>)
  ELSE LET c == schema[1]
           t == ReadVarint(b, 1, 0)
           tag == ToInteger(t.bits)
           v == ReadVarint(b, t.next, 0)
           n == ToInteger(v.bits)
           data == SubSeq(b, v.next, v.next + n - 1)
           after(pos) == SchemaDecode(SubSeq(b, pos, Len(b)), Tail(schema))
       IN CASE c.op = "writeVarint" /\ tag % 8 = 0 ->
                 <<[op |-> c.op, field |-> tag \div 8, number |-> v.bits]>> \o after(v.next)
            [] c.op = "writeString" /\ tag % 8 = 2 ->
                 <<[op |-> c.op, field |-> tag \div 8, string |-> Utf8Text(data)]>>
                   \o after(v.next + n)
            [] c.op = "writeBytes" /\ tag % 8 = 2 ->
                 <<[op |-> c.op, field |-> tag \div 8, bytes |-> data]>> \o after(v.next + n)
            [] c.op = "writeMessage" /\ tag % 8 = 2 ->
                 <<[op |-> c.op, field |-> tag \div 8, sub |-> SchemaDecode(data, c.sub)]>>
                   \o after(v.next + n)
            [] OTHER -> <<[op |-> "wire type"]>>

\* C26: toBuffer after a sequence of write calls is the field encodings in
\* call order, a schema-aware decode of it recovers the calls' fields and
\* values in order, and writeMessage(f, sub) writes what
\* writeBytes(f, sub.toBuffer()) writes.
C26_EncoderRoundTrip ==
  (app.fn = "toBuffer" /\ app.done) =>
     LET calls == app.in.calls
         RECURSIVE each(_)
         each(cs) == IF cs = <<>> THEN <<>> ELSE ToBuffer(<<cs[1]>>) \o each(Tail(cs))
     IN /\ app.out.bytes = each(calls)
        /\ SchemaDecode(app.out.bytes, calls) = calls
        /\ \A k \in 1..Len(calls) :
             calls[k].op = "writeMessage" =>
               ToBuffer(<<calls[k]>>)
                 = ToBuffer(<<[op |-> "writeBytes", field |-> calls[k].field,
                               bytes |-> ToBuffer(calls[k].sub)]>>)


\* C27: repairJson parses, in this order, the raw text, the text with the
\* tail stripped, then without trailing commas, then with the keys quoted,
\* then with double quotes, then with the brackets closed, each made from the
\* one before; it goes on only while no text has parsed, returns the parse of
\* the first one that does under the name of its step, and returns a text
\* that parses as it is under the name raw.
C27_FirstSuccessWins ==
  (app.fn = "repairJson") =>
     LET ts == app.out.texts
         n == Len(ts)
         direct == JsonParse(app.in.text)
     IN /\ n >= 1 => ts[1] = app.in.text
        /\ n >= 2 => ts[2] = StripTail(ts[1])
        /\ n >= 3 => ts[3] = RemoveTrailingCommas(ts[2])
        /\ n >= 4 => ts[4] = FixKeyQuotes(ts[3])
        /\ n >= 5 => ts[5] = SingleToDoubleQuotes(ts[4])
        /\ n >= 6 => ts[6] = CloseUnclosedBrackets(ts[5])
        /\ n <= 6
        /\ \A k \in 1..(n - 1) : ~JsonParse(ts[k]).ok
        /\ (n >= 1 /\ JsonParse(ts[n]).ok) =>
             /\ app.done
             /\ app.out.ok
             /\ app.out.step = RepairSteps[n]
             /\ app.out.value = JsonParse(ts[n]).value
        /\ (n >= 1 /\ ~JsonParse(ts[n]).ok) => (~app.out.ok /\ (app.done <=> n = 6))
        /\ (direct.ok /\ n >= 1) =>
             (app.out.step = "raw" /\ app.out.value = direct.value /\ n = 1)

\* a text with a key that lacks a quote is returned by the fourth step,
\* after three texts that did not parse
C27_Witness ==
  /\ app.fn = "repairJson"
  /\ app.done
  /\ app.out.ok
  /\ app.out.step = "fix_key_quotes"
  /\ Len(app.out.texts) = 4
  /\ app.out.texts[3] # app.out.texts[4]


\* C28: an object text with identifier-like keys, each properly quoted,
\* without its leading quote or without quotes, and double-quoted string
\* values is repaired to the mapping of the properly quoted text; where a
\* key lacks a quote the result comes from the key-quote-fix step.
C28_KeyQuotesRepaired ==
  (app.fn = "repairJson" /\ app.in.kind = "keys" /\ app.done) =>
     /\ app.out.ok
     /\ app.out.value = JsonParse(app.in.orig).value
     /\ app.in.text # app.in.orig => app.out.step = "fix_key_quotes"


\* C29, as stated: a valid object or array text with a comma (and
\* whitespace) put before one of its closers is repaired to the value of the
\* valid text.
C29_TrailingCommaRepaired ==
  (app.fn = "repairJson" /\ app.in.kind = "comma" /\ app.done) =>
     /\ app.out.ok
     /\ app.out.value = JsonParse(app.in.orig).value

\* C29: a valid object or array text with a comma (and whitespace) put
\* before one of its closers is repaired to the value of the valid text
\* without its end markers, which is the value of the valid text where no
\* string holds the marker; the commas inside its strings stay.
C29_TrailingCommaRepairedUnmarked ==
  (app.fn = "repairJson" /\ app.in.kind = "comma" /\ app.done) =>
     /\ app.out.ok
     /\ app.out.step = "trailing_commas"
     /\ app.out.value = JsonParse(StripTail(app.in.orig)).value
     /\ StripTail(app.in.orig) = app.in.orig => app.out.value = JsonParse(app.in.orig).value

\* an array of a string that holds a comma before a closer, with a comma and
\* a space before the closer of the array
C29_Witness ==
  /\ app.fn = "repairJson"
  /\ app.done
  /\ app.in.kind = "comma"
  /\ app.in.text = <<"[", "\"", "a", "{", "1", ",", "}", "\"", ",", " ", "]">>
  /\ app.out.step = "trailing_commas"
  /\ app.out.value = [t |-> "array", v |-> <<[t |-> "string", v |-> <<"a", "{", "1", ",", "}">>]>>]


\* C30: a valid object or array text without one or more of its last closers
\* is repaired to the value of the valid text, by appending the missing
\* closers, the one of the last opened bracket first.
C30_ClosersRestored ==
  (app.fn = "repairJson" /\ app.in.kind = "closers" /\ app.done) =>
     /\ app.out.ok
     /\ app.out.value = JsonParse(app.in.orig).value
     /\ app.out.step = "close_brackets"


\* the positions of text from start on that stand outside every single- or
\* double-quoted string, a backslash inside a string taking the character
\* behind it with it
Structural(text, start) ==
  LET RECURSIVE outside(_, _, _)
      outside(i, quote, escaped) ==
        IF i > Len(text) THEN {}
        ELSE IF quote = ""
             THEN IF text[i] \in {"\"", "'"} THEN outside(i + 1, text[i], FALSE)
                  ELSE {i} \cup outside(i + 1, "", FALSE)
        ELSE IF escaped THEN outside(i + 1, quote, FALSE)
        ELSE IF text[i] = "\\" THEN outside(i + 1, quote, TRUE)
        ELSE IF text[i] = quote THEN outside(i + 1, "", FALSE)
        ELSE outside(i + 1, quote, FALSE)
  IN outside(start, "", FALSE)

\* a sequence of brackets in which every closing bracket closes the last open
\* bracket and is of its kind, and none stays open
RECURSIVE Balanced(_, _)
Balanced(bs, open) ==
  IF bs = <<>> THEN open = <<>>
  ELSE IF bs[1] \in {"{", "["} THEN Balanced(Tail(bs), <<bs[1]>> \o open)
  ELSE /\ open # <<>>
       /\ open[1] = (IF bs[1] = "}" THEN "{" ELSE "[")
       /\ Balanced(Tail(bs), Tail(open))

\* the structural brackets of text at the positions from to to
RECURSIVE BracketsBetween(_, _, _, _)
BracketsBetween(text, structural, from, to) ==
  IF from > to THEN <<>>
  ELSE (IF from \in structural /\ text[from] \in {"{", "}", "[", "]"}
        THEN <<text[from]>> ELSE <<>>)
       \o BracketsBetween(text, structural, from + 1, to)

\* C31: extractJsonLikeArgs finds nothing exactly when no '{' or '[' stands at
\* or after fromIdx; otherwise the returned substring starts at the first of
\* them and, when unterminated is false, ends at the first closing bracket
\* outside every quoted string that matches that opening bracket: it is of
\* its kind and the structural brackets between the two are balanced.
C31_EndsAtMatchingBracket ==
  (app.fn = "extractJsonLikeArgs" /\ app.done) =>
    LET text == app.in.text
        openers == {p \in (app.in.fromIdx + 1)..Len(text) : text[p] \in {"{", "["}}
    IN /\ app.out.found <=> openers # {}
       /\ app.out.found =>
            LET start == CHOOSE p \in openers : \A o \in openers : p <= o
                end == start + Len(app.out.jsonLike) - 1
                structural == Structural(text, start)
                closes(q) ==
                  /\ q \in structural
                  /\ text[q] = (IF text[start] = "{" THEN "}" ELSE "]")
                  /\ Balanced(BracketsBetween(text, structural, start + 1, q - 1), <<>>)
            IN /\ end <= Len(text)
               /\ app.out.jsonLike = SubSeq(text, start, end)
               /\ ~app.out.unterminated =>
                    /\ closes(end)
                    /\ \A r \in (start + 1)..(end - 1) : ~closes(r)


\* a text without the end-of-sequence tokens </s> that stand in it
RECURSIVE Unmarked(_)
Unmarked(s) ==
  IF s = <<>> THEN <<>>
  ELSE IF Len(s) >= 4 /\ SubSeq(s, 1, 4) = <<"<", "/", "s", ">">>
       THEN Unmarked(SubSeq(s, 5, Len(s)))
       ELSE <<s[1]>> \o Unmarked(Tail(s))

\* the argument text of s, which holds an opening bracket: from the first
\* opening bracket to the first bracket outside the quoted strings at which
\* as many brackets have closed as have opened, or to the end of s
ArgsText(s) ==
  LET start == CHOOSE p \in 1..Len(s) : s[p] \in {"{", "["} /\ \A o \in 1..(p - 1) : s[o] \notin {"{", "["}
      structural == Structural(s, start)
      opened(q) == Cardinality({p \in structural : p <= q /\ s[p] \in {"{", "["}})
      closed(q) == Cardinality({p \in structural : p <= q /\ s[p] \in {"}", "]"}})
      ends == {q \in structural : s[q] \in {"}", "]"} /\ opened(q) = closed(q)}
  IN [balanced |-> ends # {},
      text |-> SubSeq(s, start, IF ends = {} THEN Len(s)
                                ELSE CHOOSE q \in ends : \A e \in ends : q <= e)]

\* the text the n-th step of repairJson tries on the text s
RECURSIVE Rung(_, _)
Rung(n, s) == IF n = 1 THEN RepairStep(1, s) ELSE RepairStep(n, Rung(n - 1, s))

\* C32: parseToolCallRobust returns null or a triple (the function has no
\* statement that raises outside a try block, so the model has no raising
\* outcome). It returns null exactly when the text has no call marker, when
\* no '{' or '[' follows the marker, or when no repair step parses. On
\* success thinking is the trimmed text before the marker without its
\* end-of-sequence tokens, name is the name of the marker, arguments is the
\* parse of the first step that parses; and when the arguments are balanced
\* the text behind them changes nothing.
C32_NullOrTriple ==
  (app.fn = "parseToolCallRobust" /\ app.done) =>
    LET i == app.in
        rest == Unmarked(i.args \o i.after)
        opener == \E p \in 1..Len(rest) : rest[p] \in {"{", "["}
        json == ArgsText(rest).text
        parses == {n \in 1..Len(RepairSteps) : JsonParse(Rung(n, json)).ok}
        first == CHOOSE n \in parses : \A k \in parses : n <= k
        alone == Unmarked(i.args)
    IN /\ app.out.null <=> (~i.marked \/ ~opener \/ parses = {})
       /\ app.out.null =>
            app.out = [null |-> TRUE, thinking |-> <<>>, name |-> <<>>,
                       arguments |-> ParseFailed.value]
       /\ ~app.out.null =>
            /\ app.out.thinking = Trim(Unmarked(i.before))
            /\ app.out.name = <<"r", "g">>
            /\ app.out.arguments = JsonParse(Rung(first, json)).value
       /\ ((\E p \in 1..Len(alone) : alone[p] \in {"{", "["}) /\ ArgsText(alone).balanced) =>
            app.out = ParseToolCallRobust(i.before \o i.call \o i.args)

\* a call with an end-of-sequence token in the thinking and text behind
\* balanced arguments is parsed
C32_Witness ==
  /\ app.fn = "parseToolCallRobust"
  /\ app.done
  /\ ~app.out.null
  /\ app.in.after = <<"\n", "E", "x", "t", "r", "a">>
  /\ app.in.before = <<"a", "<", "/", "s", ">", " ">>
  /\ app.out.thinking = <<"a">>
  /\ app.out.arguments.t = "object"


\* the entries the well-formed file elements among the parts ps stand for,
\* in the order of the document
RECURSIVE FileEntries(_)
FileEntries(ps) ==
  IF ps = <<>> THEN <<>>
  ELSE (IF ps[1].kind = "file" THEN <<[path |-> ps[1].path, ranges |-> ps[1].ranges]>>
        ELSE <<>>) \o FileEntries(Tail(ps))

\* C33: _parseAnswer returns one entry per well-formed file element of the
\* answer, in document order, each with its path without the virtual-root
\* prefix and the (start, end) pairs of its well-formed range elements in
\* document order; text around the elements and elements of another shape
\* add nothing and take nothing away. (The function has no statement that
\* raises on a string.)
C33_OneEntryPerFileElement ==
  (app.fn = "_parseAnswer" /\ app.done) => app.out.files = FileEntries(app.in.parts)


\* C34: connectFrameDecode emits one frame per frame of the body, in order:
\* the decompressed content for a frame whose flag byte is 1 or 3 and whose
\* payload is a gzip container, the raw payload for a frame with flag 1 or 3
\* whose payload cannot be decompressed (the frames behind it are decoded all
\* the same), and the unchanged payload for a frame with any other flag byte,
\* gzip container or not.
C34_GunzipOnFlag1Or3 ==
  (app.fn = "connectFrameDecode" /\ app.done /\ "flagged" \in DOMAIN app.in) =>
    LET fs == app.in.flagged
    IN /\ ~app.out.raised
       /\ Len(app.out.frames) = Len(fs)
       /\ \A k \in 1..Len(fs) :
            app.out.frames[k] = IF fs[k].flags \in {1, 3} /\ fs[k].zipped
                                THEN fs[k].content ELSE fs[k].body

\* a frame with flag 3 whose payload is no gzip container is emitted raw, and
\* the compressed frame behind it is decompressed
C34_Witness ==
  /\ app.fn = "connectFrameDecode"
  /\ app.done
  /\ "flagged" \in DOMAIN app.in
  /\ Len(app.in.flagged) = 2
  /\ app.in.flagged[1].flags = 3
  /\ ~app.in.flagged[1].zipped
  /\ app.in.flagged[2].flags = 1
  /\ app.in.flagged[2].zipped
  /\ app.out.frames = <<<<31, 9>>, <<7, 8>>>>


\* C36: the outcome of _parseResponse is that of the earliest frame, in frame
\* order, that is a JSON object with an error member or holds the call
\* marker, whatever the frames before it and behind it are: an error frame
\* gives '[Error] code: message' and no tool call; a marker frame gives the
\* parse of its own text alone.
C36_EarliestDecidingFrame ==
  (app.fn = "_parseResponse" /\ (app.done \/ app.out.hangs)) =>
    LET fs == app.in.frames
        deciding == {k \in 1..Len(fs) : fs[k].kind \in {"error", "marker"}}
        first == CHOOSE k \in deciding : \A d \in deciding : k <= d
    IN deciding # {} =>
         /\ app.done
         /\ app.out.text = fs[first].expect
         /\ app.out.null = ~fs[first].call


\* C35: a search session sends at most maxTurns + 1 streaming requests, its
\* turn counter never decreases, and, every network call returning or
\* failing in the end, a session that was started returns or raises.
C35_BoundedTurnsAndTermination ==
  /\ [](\A s \in Sessions : Len(sess[s].sent) <= sess[s].maxTurns + 1)
  /\ [][\A s \in Sessions : sess'[s].turn >= sess[s].turn]_vars
  /\ \A s \in Sessions : (sess[s].pc # "idle") ~> (sess[s].pc \in {"done", "raised"})


\* C37: a turn after which the session sends another streaming request has
\* extended the conversation log by an assistant message and a tool-result
\* message at least, whatever the name of the tool the response called, and
\* no two consecutive requests of a session carry the same conversation.
C37_EveryTurnExtendsLog ==
  /\ [][\A s \in Sessions :
          (sess[s].pc = "turn" /\ Len(sess'[s].sent) = Len(sess[s].sent) + 1) =>
            LET old == sess[s].messages
                new == sess'[s].messages
            IN /\ Len(new) >= Len(old) + 2
               /\ IsPrefix(old, new)
               /\ new[Len(old) + 1].role = ROLE_ASSISTANT
               /\ new[Len(old) + 2].role = ROLE_TOOL]_vars
  /\ [](\A s \in Sessions :
          \A k \in 1..(Len(sess[s].sent) - 1) : sess[s].sent[k] # sess[s].sent[k + 1])


\* the pattern the commands of a session of PairSpec search for
OwnPattern(s) == IF s = 1 THEN "a" ELSE "b"

\* the patterns the calls of a conversation log pushed, in the order of the log
RECURSIVE PushedBy(_)
PushedBy(ms) ==
  IF ms = <<>> THEN <<>>
  ELSE LET m == ms[Len(ms)]
           front == PushedBy(SubSeq(ms, 1, Len(ms) - 1))
       IN IF m.role = ROLE_ASSISTANT
          THEN front \o ExecToolCall(m.tool_args_json.json).pushed
          ELSE front

\* C38: with two sessions interleaved at their awaits, the conversation log
\* of a session holds only calls with the session's own pattern, each
\* followed by the results of that very call; the collected patterns of a
\* session are those its own calls pushed, and so are the patterns of its
\* result; no call id appears in both logs; and a step changes the session
\* record and the request of one session at most, so that the sessions share
\* the environment variable and _tlsFallbackApplied only (and the source of
\* the call ids).
C38_SessionsIsolated ==
  /\ [](\A s \in 1..2 :
          LET ms == sess[s].messages
          IN /\ \A i \in 1..Len(ms) :
                  /\ ms[i].role = ROLE_ASSISTANT =>
                       \A e \in Range(ms[i].tool_args_json.json) :
                         e.val.pattern \in {OwnPattern(s), U}
                  /\ ms[i].role = ROLE_TOOL =>
                       /\ i > 1
                       /\ ms[i - 1].role = ROLE_ASSISTANT
                       /\ ms[i].ref_call_id = ms[i - 1].tool_call_id
                       /\ ms[i].results = ExecToolCall(ms[i - 1].tool_args_json.json).parts
             /\ sess[s].collectedRgPatterns = PushedBy(ms)
             /\ Range(sess[s].result.rg_patterns) \subseteq Range(PushedBy(ms))
             /\ Range(sess[s].result.rg_patterns) \subseteq {OwnPattern(s)})
  /\ [](CallIds(sess[1].messages) \cap CallIds(sess[2].messages) = {})
  /\ [][\E s \in 1..2 :
          /\ \A t \in Callers \ {s} : sess'[t] = sess[t] /\ net'[t] = net[t]
          /\ app' = app]_vars

\* both sessions have returned, session 2 took a turn between the two turns
\* of session 1, each result names the session's own pattern, and the last
\* request of session 2 ran relaxed after a fallback was applied
C38_Witness ==
  /\ sess[1].pc = "done" /\ sess[2].pc = "done"
  /\ CallIds(sess[1].messages) = {1, 3}
  /\ CallIds(sess[2].messages) = {2}
  /\ sess[1].result.rg_patterns = <<"a">>
  /\ sess[2].result.rg_patterns = <<"b">>
  /\ tlsFallbackApplied
  /\ net[2].attempts # <<>> /\ net[2].attempts[1].relaxed


\* C39: every value search returns has a files list; a value with an error
\* has no files, a value with a raw_response has no files, and no value has
\* both an error and a raw_response.
C39_OneOutcomeShape ==
  \A s \in Sessions :
    sess[s].pc = "done" =>
      LET r == sess[s].result
      IN /\ "files" \in r.keys
         /\ ("error" \in r.keys) = (r.error # U)
         /\ ("raw_response" \in r.keys) = (r.raw_response # U)
         /\ r.error # U => r.files = <<>>
         /\ r.raw_response # U => r.files = <<>>
         /\ ~(r.error # U /\ r.raw_response # U)

\* a session returned the text of a response without a tool call after a
\* turn that ran commands
C39_Witness ==
  \E s \in Sessions :
    /\ sess[s].pc = "done"
    /\ sess[s].result.raw_response # U
    /\ sess[s].result.error = U
    /\ sess[s].collectedRgPatterns # <<>>

====
